---- MODULE Spec2Model ----
(***************************************************************************)
(* A model of the node-host bridge: the BridgeClient session and RPC       *)
(* correlator (bridge-client.ts) and the system.run authorization pipeline *)
(* handleInvoke (node-host runner).                                        *)
(***************************************************************************)
EXTENDS Integers, Sequences, FiniteSets, TLC

\* ------------------------------------------------------------------ bounds
\* Sockets opened by connect() in one behaviour.
MaxSockets == 2
\* request() calls issued in one behaviour.
MaxCalls == 2
\* this.socket === null
NoSocket == 0

SocketIds == 1..MaxSockets
CallIds == 1..MaxCalls

VARIABLES
  \* ---- BridgeClient fields
  socket,        \* this.socket: NoSocket or the id of the socket held
  connected,     \* this.connected
  pendingRpc,    \* this.pendingRpc: the ids in the table
  helloReady,    \* this.helloReady: "null" | "pending" | "resolved" | "rejected"
  helloResolve,  \* this.helloResolve !== null
  helloReject,   \* this.helloReject !== null
  token,         \* this.opts.token: "none" or a token
  \* ---- the runtime around the client
  sockState,     \* each socket created: "unopened" | "connecting" | "open" |
                 \*   "errored" | "destroyed" | "closed"
  timers,        \* the armed (not fired, not cleared) request timers, by call id
  calls,         \* each request()'s promise: state, number of resolve/reject
                 \*   invocations, and what settled it first
  \* ---- observation
  fired,         \* the calls whose request timer has fired
  written        \* the `req` frames written with socket.write, each with
                 \*   whether the session was Ready when it was written

bridgeVars == <<socket, connected, pendingRpc, helloReady, helloResolve, helloReject,
                token, sockState, timers, calls, fired, written>>

\* ------------------------------------------------------------------ frames
Frame(type, id, arg) == [type |-> type, id |-> id, arg |-> arg]

ErrorCodes == {"NOT_PAIRED", "UNAUTHORIZED", "OTHER"}

\* The frames a peer may send (one per line).
InFrames ==
  {Frame("hello-ok", 0, ""), Frame("ping", 0, ""), Frame("pong", 0, ""),
   Frame("event", 0, ""), Frame("invoke", 0, ""), Frame("invoke-res", 0, ""),
   Frame("unknown", 0, "")}
  \cup {Frame("pair-ok", 0, t) : t \in {"", " ", "T"}}
  \cup {Frame("error", 0, c) : c \in ErrorCodes}
  \cup {Frame("res", id, "") : id \in CallIds}

\* ------------------------------------------------------------------ client state
\* The client's fields and the runtime objects its methods act on, as one
\* record, so that a method calling another composes.
Client ==
  [socket |-> socket, connected |-> connected, pendingRpc |-> pendingRpc,
   helloReady |-> helloReady, helloResolve |-> helloResolve,
   helloReject |-> helloReject, token |-> token, timers |-> timers,
   calls |-> calls, fired |-> fired, written |-> written,
   \* what the step in progress has written to the socket, in order, and
   \* the callbacks of opts it has invoked
   out |-> <<>>, notes |-> {}]

Becomes(c) ==
  /\ socket' = c.socket
  /\ connected' = c.connected
  /\ pendingRpc' = c.pendingRpc
  /\ helloReady' = c.helloReady
  /\ helloResolve' = c.helloResolve
  /\ helloReject' = c.helloReject
  /\ token' = c.token
  /\ timers' = c.timers
  /\ calls' = c.calls
  /\ fired' = c.fired
  /\ written' = c.written

NewCall == [state |-> "new", settles |-> 0, by |-> "none"]

\* One invocation of a promise's resolve or reject: the first settles the
\* promise, every invocation is counted (capped at 2).
Settle(call, how, by) ==
  [state |-> IF call.state = "pending" THEN how ELSE call.state,
   settles |-> IF call.settles < 2 THEN call.settles + 1 ELSE 2,
   by |-> IF call.state = "pending" THEN by ELSE call.by]

\* What socket.write(frame) adds to the observation.
Observed(c, frame) ==
  IF frame.type = "req" THEN {[type |-> frame.type, ready |-> c.connected]} ELSE {}

\* Mutant: send() writes whether or not the client holds a socket.
send_Unguarded(c, frame) ==
  [c EXCEPT !.written = @ \cup Observed(c, frame),
            !.out = Append(@, frame)]

\* send(frame): nothing without a socket, else one socket.write.
send(c, frame) ==
  IF c.socket = NoSocket THEN c
  ELSE [c EXCEPT !.written = @ \cup Observed(c, frame),
                 !.out = Append(@, frame)]

\* Mutant: the hello frame never carries the token.
sendHello_NoToken(c) == send(c, Frame("hello", 0, "none"))

\* sendHello(): the hello frame carries opts.token.
sendHello(c) == send(c, Frame("hello", 0, c.token))

sendPairRequest(c) == send(c, Frame("pair-request", 0, ""))

\* The timers left armed when the entries `ids` are rejected by
\* handleDisconnect or close(): clearTimeout on each.
TimersAfterReject(ts, ids) == ts \ ids

\* Mutant: handleDisconnect does not call opts.onDisconnected.
NotesAfterDisconnect_Silent(ns) == ns

\* void this.opts.onDisconnected?.(err)
NotesAfterDisconnect(ns) == ns \cup {"onDisconnected"}

\* handleDisconnect(err)
handleDisconnect(c) ==
  LET c1 == IF ~c.connected /\ c.helloReject
            THEN [c EXCEPT !.helloReady = IF @ = "pending" THEN "rejected" ELSE @,
                           !.helloResolve = FALSE,
                           !.helloReject = FALSE]
            ELSE c
  IN IF ~c1.connected /\ c1.socket = NoSocket THEN c1
     ELSE [c1 EXCEPT
             !.connected = FALSE,
             !.socket = NoSocket,
             !.calls = [id \in CallIds |->
                          IF id \in c1.pendingRpc
                          THEN Settle(c1.calls[id], "rejected", "disconnect")
                          ELSE c1.calls[id]],
             !.timers = TimersAfterReject(@, c1.pendingRpc),
             !.pendingRpc = {},
             !.notes = NotesAfterDisconnect(@)]

\* Mutant: the `res` branch forgets clearTimeout.
TimersAfterRes_NoClear(ts, id) == ts

\* The timers left armed when a `res` frame finds the entry `id`.
TimersAfterRes(ts, id) == ts \ {id}

\* Mutant: the `res` branch clears the table.
PendingAfterRes_Clear(p, id) == {}

\* The table after a `res` frame found the entry `id`.
PendingAfterRes(p, id) == p \ {id}

\* String(frame.token ?? "").trim()
TokenOf(frame) == IF frame.arg = " " THEN "" ELSE frame.arg

\* Mutant: UNAUTHORIZED is treated as any other error code.
IsAuthError_NotPairedOnly(code) == code = "NOT_PAIRED"

\* code === "NOT_PAIRED" || code === "UNAUTHORIZED"
IsAuthError(code) == code \in {"NOT_PAIRED", "UNAUTHORIZED"}

\* handleFrame(frame), for a frame read from socket s.
handleFrame(c, s, frame) ==
  CASE frame.type = "hello-ok" ->
         [c EXCEPT !.connected = TRUE,
                   !.helloReady = IF c.helloResolve /\ @ = "pending" THEN "resolved" ELSE @,
                   !.helloResolve = FALSE,
                   !.helloReject = FALSE,
                   !.notes = @ \cup {"onConnected"}]
    [] frame.type = "pair-ok" ->
         IF TokenOf(frame) # ""
         THEN [c EXCEPT !.token = TokenOf(frame), !.notes = @ \cup {"onPairToken"}]
         ELSE c
    [] frame.type = "error" ->
         IF IsAuthError(frame.arg)
         THEN sendPairRequest([c EXCEPT !.token = "none",
                                        !.notes = @ \cup {"onAuthReset"}])
         ELSE handleDisconnect(c)
    [] frame.type = "pong" -> c
    [] frame.type = "ping" -> send(c, Frame("pong", 0, ""))
    [] frame.type = "event" -> c
    [] frame.type = "res" ->
         IF frame.id \in c.pendingRpc
         THEN [c EXCEPT !.timers = TimersAfterRes(@, frame.id),
                        !.pendingRpc = PendingAfterRes(@, frame.id),
                        !.calls[frame.id] = Settle(@, "resolved", "res")]
         ELSE c
    [] frame.type = "invoke" -> c
    [] frame.type = "invoke-res" -> c
    [] OTHER -> c

\* ------------------------------------------------------------------ actions
InitBridge ==
  /\ socket = NoSocket
  /\ connected = FALSE
  /\ pendingRpc = {}
  /\ helloReady = "null"
  /\ helloResolve = FALSE
  /\ helloReject = FALSE
  /\ token \in {"none", "T"}
  /\ sockState = [s \in SocketIds |-> "unopened"]
  /\ timers = {}
  /\ calls = [id \in CallIds |-> NewCall]
  /\ fired = {}
  /\ written = {}

\* connect(), up to its await, when it opens the socket s.
connect(c, s) ==
  [c EXCEPT !.helloReady = "pending",
            !.helloResolve = TRUE,
            !.helloReject = TRUE,
            !.socket = s]

\* The socket net.connect() returns is a new one.
IsNewSocket(s) ==
  /\ sockState[s] = "unopened"
  /\ \A t \in SocketIds : t < s => sockState[t] # "unopened"

ConnectOn(s) ==
  /\ ~connected
  /\ IsNewSocket(s)
  /\ sockState' = [sockState EXCEPT ![s] = "connecting"]
  /\ Becomes(connect(Client, s))

\* connect(), up to its await.
Connect == \E s \in SocketIds : ConnectOn(s)

\* close()
Close ==
  /\ sockState' = [s \in SocketIds |->
                     IF s = socket /\ sockState[s] \in {"connecting", "open", "errored"}
                     THEN "destroyed" ELSE sockState[s]]
  /\ Becomes([Client EXCEPT
                !.socket = NoSocket,
                !.connected = FALSE,
                !.calls = [id \in CallIds |->
                             IF id \in pendingRpc
                             THEN Settle(calls[id], "rejected", "closed")
                             ELSE calls[id]],
                !.timers = TimersAfterReject(@, pendingRpc),
                !.pendingRpc = {}])

\* The table after request() registered the call `id`.
PendingAfterRequest(p, id) == p \cup {id}

\* request(method, params, timeoutMs), up to its await, for the call `id`.
request(c, id) ==
  send([c EXCEPT !.timers = @ \cup {id},
                 !.pendingRpc = PendingAfterRequest(@, id),
                 !.calls[id].state = "pending"],
       Frame("req", id, ""))

RequestOf(id) ==
  /\ calls[id].state = "new"
  /\ \A j \in CallIds : j < id => calls[j].state # "new"
  /\ Becomes(request(Client, id))
  /\ UNCHANGED sockState

\* request(method, params, timeoutMs), up to its await.
Request == \E id \in CallIds : RequestOf(id)

\* Mutant: the timer callback forgets pendingRpc.delete(id).
PendingAfterTimeout_NoDelete(p, id) == p

\* The table after the timer of call `id` fired.
PendingAfterTimeout(p, id) == p \ {id}

\* The setTimeout callback of request().
TimerFires ==
  \E id \in timers :
    /\ Becomes([Client EXCEPT !.timers = @ \ {id},
                              !.fired = @ \cup {id},
                              !.pendingRpc = PendingAfterTimeout(@, id),
                              !.calls[id] = Settle(@, "rejected", "timeout")])
    /\ UNCHANGED sockState

ConnectedOn(s) ==
  /\ sockState[s] = "connecting"
  /\ sockState' = [sockState EXCEPT ![s] = "open"]
  /\ Becomes(sendHello(Client))

\* socket.on("connect")
SocketConnect == \E s \in SocketIds : ConnectedOn(s)

ErrorOn(s) ==
  /\ sockState[s] \in {"connecting", "open"}
  /\ sockState' = [sockState EXCEPT ![s] = "errored"]
  /\ Becomes(handleDisconnect(Client))

\* socket.on("error")
SocketError == \E s \in SocketIds : ErrorOn(s)

CloseOn(s) ==
  /\ sockState[s] \in {"open", "errored", "destroyed"}
  /\ sockState' = [sockState EXCEPT ![s] = "closed"]
  /\ Becomes(handleDisconnect(Client))

\* socket.on("close")
SocketClose == \E s \in SocketIds : CloseOn(s)

\* socket.on("data") and flush(), for a chunk that completes one line.  A
\* chunk of several lines acts as the same lines delivered one by one: flush
\* hands them to handleFrame in order and nothing else runs in between.
DataFrom(s, frame) ==
  /\ sockState[s] = "open"
  /\ Becomes(handleFrame(Client, s, frame))
  /\ UNCHANGED sockState

SocketData == \E s \in SocketIds, frame \in InFrames : DataFrom(s, frame)

NextBridge ==
  \/ Connect
  \/ Close
  \/ Request
  \/ TimerFires
  \/ SocketConnect
  \/ SocketError
  \/ SocketClose
  \/ SocketData

\* ================================================================== handleInvoke
\* Activations of handleInvoke in flight together: handleFrame does not await
\* onInvoke, so with more than one a handler starts while another is
\* suspended at an await.
MaxInFlight == 1

Securities == {"deny", "allowlist", "open"}
Asks == {"always", "on-miss", "never"}
AskFallbacks == {"full", "allowlist", "deny"}
Policies ==
  [security : Securities, ask : Asks, askFallback : AskFallbacks,
   autoAllowSkills : BOOLEAN]

Agents == {"main", "ops"}

\* A value that is null or undefined.
Null == "<null>"

\* The argv[0] of the system.run requests modelled: one that resolves to a
\* path, one that does not, and the empty token.
Commands == {"ls", "tool", ""}

\* resolveCommandResolution(cmdText, cwd, env)
resolveCommandResolution(cmd) ==
  CASE cmd = "ls" ->
         [resolvedPath |-> "/bin/ls", rawExecutable |-> "ls", executableName |-> "ls"]
    [] cmd = "tool" ->
         [resolvedPath |-> Null, rawExecutable |-> "tool", executableName |-> "tool"]
    [] OTHER ->
         [resolvedPath |-> Null, rawExecutable |-> Null, executableName |-> Null]

\* The key an allowlist entry is matched on: the resolved path, or the raw
\* executable token when no path resolved.
AllowlistKey(resolution) ==
  IF resolution.resolvedPath # Null THEN resolution.resolvedPath
  ELSE resolution.rawExecutable

\* The system.run requests modelled, by requesting agent and argv[0].
Requests ==
  {[agent |-> "main", cmd |-> "ls"], [agent |-> "main", cmd |-> "tool"],
   [agent |-> "main", cmd |-> ""], [agent |-> "ops", cmd |-> "ls"]}

\* matchAllowlist(approvals.allowlist, resolution), on the agent's entries.
matchAllowlist(entries, agent, resolution) ==
  /\ AllowlistKey(resolution) # Null
  /\ [agent |-> agent, pattern |-> AllowlistKey(resolution)] \in entries

\* addAllowlistEntry(approvals.file, agentId, pattern)
addAllowlistEntry(entries, agent, pattern) ==
  entries \cup {[agent |-> agent, pattern |-> pattern]}

\* The names the skills.bins lookup may return.
SkillNames == {"ls"}

\* What an invoke frame asks for and how its paramsJSON decodes.
InvokeKinds ==
  {"which", "which-invalid", "unsupported", "run-no-params", "run-bad-json",
   "run-null", "run-no-command", "run"}

Decisions == {"deny", "allow-once", "allow-always", Null}

VARIABLES
  policy,        \* resolveExecApprovals(agentId).agent
  allowlist,     \* the allowlist store: the entries of every agent
  skillBins,     \* SkillBinsCache.bins
  skillFresh,    \* SkillBinsCache.lastRefresh # 0
  inv            \* the handleInvoke activations, by handler

invokeVars == <<policy, allowlist, skillBins, skillFresh, inv>>

\* The activations of handleInvoke.
Handlers == DOMAIN inv

IdleHandler ==
  [pc |-> "idle", kind |-> "run", cmd |-> "", agent |-> "main",
   needsScreenRecording |-> FALSE, refreshing |-> FALSE,
   allowlistMatch |-> FALSE, skillAllow |-> FALSE, approvedByAsk |-> FALSE,
   decision |-> "none",
   sent |-> <<>>, asks |-> 0, spawns |-> 0, adds |-> {}, uses |-> 0,
   fault |-> FALSE]

\* client.sendEvent(name, payload)
Event(name, detail) == [kind |-> "event", what |-> name, detail |-> detail]

\* client.sendInvokeResponse(frame)
InvokeRes(ok, detail) ==
  [kind |-> "invoke-res", what |-> IF ok THEN "ok" ELSE "error", detail |-> detail]

\* The world a segment of handleInvoke acts on: its own activation and the
\* allowlist store.
World(i) == [h |-> inv[i], allowlist |-> allowlist]

\* An early return with a non-ok invoke-res and no event.
Reject(w, message) ==
  [w EXCEPT !.h.sent = @ \o <<InvokeRes(FALSE, message)>>, !.h.pc = "done"]

\* Mutant: the response is sent before the event.
DenialFrames_ResponseFirst(reason, message) ==
  <<InvokeRes(FALSE, message), Event("exec.denied", reason)>>

\* What a denial path sends: the exec.denied event, then the non-ok invoke-res.
DenialFrames(reason, message) ==
  <<Event("exec.denied", reason), InvokeRes(FALSE, message)>>

Deny(w, reason, message) ==
  [w EXCEPT !.h.sent = @ \o DenialFrames(reason, message), !.h.pc = "done"]

\* Mutant: the response is sent before the exec.finished event.
FinishFrames_ResponseFirst(success) ==
  <<InvokeRes(TRUE, "result"),
    Event("exec.finished", IF success THEN "success" ELSE "failure")>>

\* What handleInvoke sends once runCommand has resolved: the exec.finished
\* event, then the ok invoke-res.
FinishFrames(success) ==
  <<Event("exec.finished", IF success THEN "success" ELSE "failure"),
    InvokeRes(TRUE, "result")>>

\* Mutant: the permission flag is not looked at.
PermissionMissing_Ignored(needsScreenRecording) == FALSE

\* params.needsScreenRecording === true
PermissionMissing(needsScreenRecording) == needsScreenRecording = TRUE

\* Mutant: the deny check compares with a value security never takes.
SecurityDenies_Misspelt(security) == security = "denied"

\* security === "deny"
SecurityDenies(security) == security = "deny"

\* Mutant: on-miss asks in every security mode.
requiresAsk_AnySecurity(p, allowlistMatch, skillAllow) ==
  \/ p.ask = "always"
  \/ /\ p.ask = "on-miss"
     /\ ~allowlistMatch
     /\ ~skillAllow

\* requiresAsk
requiresAsk(p, allowlistMatch, skillAllow) ==
  \/ p.ask = "always"
  \/ /\ p.ask = "on-miss"
     /\ p.security = "allowlist"
     /\ ~allowlistMatch
     /\ ~skillAllow

\* Mutant: the allowlist fallback approves without a match.
FallbackApproves_NoMatchNeeded(askFallback, allowlistMatch, skillAllow) ==
  askFallback \in {"full", "allowlist"}

\* Whether no answer from the approval channel approves, by askFallback.
FallbackApproves(askFallback, allowlistMatch, skillAllow) ==
  CASE askFallback = "full" -> TRUE
    [] askFallback = "allowlist" -> allowlistMatch \/ skillAllow
    [] OTHER -> FALSE

\* Mutant: the raw executable token is preferred to the resolved path.
AllowAlwaysPattern_RawFirst(cmd) ==
  LET resolution == resolveCommandResolution(cmd)
  IN IF resolution.rawExecutable # Null THEN resolution.rawExecutable
     ELSE IF resolution.resolvedPath # Null THEN resolution.resolvedPath
     ELSE cmd

\* The pattern an allow-always decision persists.
AllowAlwaysPattern(cmd) ==
  LET resolution == resolveCommandResolution(cmd)
  IN IF resolution.resolvedPath # Null THEN resolution.resolvedPath
     ELSE IF resolution.rawExecutable # Null THEN resolution.rawExecutable
     ELSE cmd

\* Mutant: an allow-always decision persists nothing.
PersistsOnAllowAlways_Never(security, pattern) == FALSE

\* Whether an allow-always decision persists an entry.
PersistsOnAllowAlways(security, pattern) == security = "allowlist" /\ pattern # ""

\* Mutant: an approval by the ask flow does not lift the allowlist check.
AllowlistMiss_IgnoresAsk(security, allowlistMatch, skillAllow, approvedByAsk) ==
  security = "allowlist" /\ ~allowlistMatch /\ ~skillAllow

\* Mutant: the miss check tests allowlistMatch instead of its negation.
AllowlistMiss_Inverted(security, allowlistMatch, skillAllow, approvedByAsk) ==
  security = "allowlist" /\ allowlistMatch /\ ~skillAllow /\ ~approvedByAsk

\* The allowlist-miss condition.
AllowlistMiss(security, allowlistMatch, skillAllow, approvedByAsk) ==
  security = "allowlist" /\ ~allowlistMatch /\ ~skillAllow /\ ~approvedByAsk

\* From the allowlist-miss check to the spawn in runCommand.
\* Mutant: usage is recorded for every approved invoke.
RecordsUse_Always(allowlistMatch) == TRUE

\* if (allowlistMatch) recordAllowlistUse(...)
RecordsUse(allowlistMatch) == allowlistMatch

AfterApproval(w0, nsr) ==
  LET w == [w0 EXCEPT !.h.needsScreenRecording = nsr] IN
  IF AllowlistMiss(policy.security, w.h.allowlistMatch, w.h.skillAllow, w.h.approvedByAsk)
  THEN Deny(w, "allowlist-miss", "SYSTEM_RUN_DENIED: allowlist miss")
  ELSE LET w1 == IF RecordsUse(w.h.allowlistMatch) THEN [w EXCEPT !.h.uses = @ + 1] ELSE w
       IN IF PermissionMissing(w1.h.needsScreenRecording)
          THEN Deny(w1, "permission:screenRecording", "PERMISSION_MISSING: screenRecording")
          ELSE LET w2 == [w1 EXCEPT !.h.sent = @ \o <<Event("exec.started", "")>>]
               IN IF w2.h.cmd = ""
                  \* spawn("") throws: the promise of runCommand rejects
                  THEN [w2 EXCEPT !.h.fault = TRUE, !.h.pc = "done"]
                  ELSE [w2 EXCEPT !.h.spawns = @ + 1, !.h.pc = "run"]

\* From the answer of requestExecApprovalViaSocket on.
AfterDecision(w0, decision, nsr) ==
  LET w == [w0 EXCEPT !.h.decision = decision]
  IN CASE decision = "deny" ->
            Deny(w, "user-denied", "SYSTEM_RUN_DENIED: user denied")
       [] decision = Null ->
            IF FallbackApproves(policy.askFallback, w.h.allowlistMatch, w.h.skillAllow)
            THEN AfterApproval([w EXCEPT !.h.approvedByAsk = TRUE], nsr)
            ELSE Deny(w, "approval-required", "SYSTEM_RUN_DENIED: approval required")
       [] decision = "allow-once" ->
            AfterApproval([w EXCEPT !.h.approvedByAsk = TRUE], nsr)
       [] OTHER ->
            LET pattern == AllowAlwaysPattern(w.h.cmd)
            IN AfterApproval(
                 IF PersistsOnAllowAlways(policy.security, pattern)
                 THEN [w EXCEPT !.h.approvedByAsk = TRUE,
                                !.h.adds = @ \cup {pattern},
                                !.allowlist = addAllowlistEntry(@, w.h.agent, pattern)]
                 ELSE [w EXCEPT !.h.approvedByAsk = TRUE],
                 nsr)

\* From the set returned by skillBins.current() to the approval request.
AfterBins(w0, bins, nsr) ==
  LET resolution == resolveCommandResolution(w0.h.cmd)
      skillAllow == /\ policy.autoAllowSkills
                    /\ resolution.executableName # Null
                    /\ resolution.executableName \in bins
      w == [w0 EXCEPT !.h.skillAllow = skillAllow]
  IN IF SecurityDenies(policy.security)
     THEN Deny(w, "security=deny", "SYSTEM_RUN_DISABLED: security=deny")
     ELSE IF requiresAsk(policy, w.h.allowlistMatch, skillAllow)
          THEN [w EXCEPT !.h.asks = @ + 1, !.h.pc = "ask"]
          ELSE AfterApproval(w, nsr)

\* handleInvoke from its start to its first await.
Begin(w0, kind, cmd, agent, nsr, stale) ==
  LET w == [w0 EXCEPT !.h.kind = kind]
  IN CASE kind = "which" ->
            [w EXCEPT !.h.sent = @ \o <<InvokeRes(TRUE, "bins")>>, !.h.pc = "done"]
       [] kind = "which-invalid" -> Reject(w, "INVALID_REQUEST")
       [] kind = "unsupported" -> Reject(w, "command not supported")
       [] kind \in {"run-no-params", "run-bad-json"} -> Reject(w, "INVALID_REQUEST")
       [] kind = "run-null" -> [w EXCEPT !.h.fault = TRUE, !.h.pc = "done"]
       [] kind = "run-no-command" -> Reject(w, "INVALID_REQUEST: command required")
       [] OTHER ->
            LET allowlistMatch ==
                  /\ policy.security = "allowlist"
                  /\ matchAllowlist(w.allowlist, agent, resolveCommandResolution(cmd))
                w1 == [w EXCEPT !.h.cmd = cmd,
                                !.h.agent = agent,
                                !.h.allowlistMatch = allowlistMatch]
            IN IF policy.autoAllowSkills
               THEN [w1 EXCEPT !.h.refreshing = stale, !.h.pc = "skills"]
               ELSE AfterBins(w1, {}, nsr)

\* params.needsScreenRecording is read once, after authorization; the
\* request's flag is drawn when the activation reads it or returns without
\* having read it.
Lands(i, w, nsr) ==
  /\ inv' = [inv EXCEPT ![i] = IF w.h.pc = "done" /\ w.h.kind = "run"
                                THEN [w.h EXCEPT !.needsScreenRecording = nsr]
                                ELSE w.h]
  /\ allowlist' = w.allowlist

\* An async function's promise settles as it returns: nothing else runs
\* between the last statement of handleInvoke and the end of its activation.
NoneReturning == \A j \in Handlers : inv[j].pc # "done"

InitInvoke ==
  /\ policy \in Policies
  /\ allowlist \in {{}, {[agent |-> "main", pattern |-> "/bin/ls"]}}
  /\ skillBins = {}
  /\ skillFresh = FALSE
  /\ inv = [i \in 1..MaxInFlight |-> IdleHandler]

\* An `invoke` frame is handed to onInvoke: handleInvoke runs to its first
\* await.
InvokeArrives ==
  \E i \in Handlers, kind \in InvokeKinds :
    /\ NoneReturning
    /\ inv[i].pc = "idle"
    /\ \A j \in Handlers : j < i => inv[j].pc # "idle"
    /\ \E r \in (IF kind = "run" THEN Requests ELSE {[agent |-> "main", cmd |-> ""]}),
          nsr \in (IF kind = "run" THEN BOOLEAN ELSE {FALSE}),
          stale \in (IF kind = "run" /\ policy.autoAllowSkills /\ skillFresh
                     THEN BOOLEAN ELSE {TRUE}) :
         Lands(i, Begin(World(i), kind, r.cmd, r.agent, nsr, stale), nsr)
    /\ UNCHANGED <<policy, skillBins, skillFresh>>

\* SkillBinsCache.refresh(): the set after the lookup succeeded.
BinsAfterRefresh(old, fetched) == fetched

\* Mutant: a failed lookup always empties the set.
BinsAfterFailure_Clears(old, fresh) == {}

\* SkillBinsCache.refresh(): the set after the lookup failed.
BinsAfterFailure(old, fresh) == IF ~fresh THEN {} ELSE old

\* `await skillBins.current()` returns, after a refresh that succeeded.
SkillsRefreshed ==
  \E i \in Handlers, fetched \in SUBSET SkillNames, nsr \in BOOLEAN :
    /\ NoneReturning
    /\ inv[i].pc = "skills"
    /\ inv[i].refreshing
    /\ skillBins' = BinsAfterRefresh(skillBins, fetched)
    /\ skillFresh' = TRUE
    /\ Lands(i, AfterBins(World(i), skillBins', nsr), nsr)
    /\ UNCHANGED policy

\* `await skillBins.current()` returns, after a refresh that failed.
SkillsRefreshFailed ==
  \E i \in Handlers, nsr \in BOOLEAN :
    /\ NoneReturning
    /\ inv[i].pc = "skills"
    /\ inv[i].refreshing
    /\ skillBins' = BinsAfterFailure(skillBins, skillFresh)
    /\ Lands(i, AfterBins(World(i), skillBins', nsr), nsr)
    /\ UNCHANGED <<policy, skillFresh>>

\* `await skillBins.current()` returns the cached set: the cache was not stale.
SkillsCached ==
  \E i \in Handlers, nsr \in BOOLEAN :
    /\ NoneReturning
    /\ inv[i].pc = "skills"
    /\ ~inv[i].refreshing
    /\ Lands(i, AfterBins(World(i), skillBins, nsr), nsr)
    /\ UNCHANGED <<policy, skillBins, skillFresh>>

\* requestExecApprovalViaSocket answers, or gives no answer.
ApprovalReturns ==
  \E i \in Handlers, decision \in Decisions, nsr \in BOOLEAN :
    /\ NoneReturning
    /\ inv[i].pc = "ask"
    /\ Lands(i, AfterDecision(World(i), decision, nsr), nsr)
    /\ UNCHANGED <<policy, skillBins, skillFresh>>

\* runCommand resolves: exec.finished, then the ok invoke-res.
CommandFinishes ==
  \E i \in Handlers, success \in BOOLEAN :
    /\ NoneReturning
    /\ inv[i].pc = "run"
    /\ inv' = [inv EXCEPT
                 ![i].sent = @ \o FinishFrames(success),
                 ![i].pc = "done"]
    /\ UNCHANGED <<policy, allowlist, skillBins, skillFresh>>

\* The promise of handleInvoke has settled; its activation is gone.
HandlerEnds ==
  \E i \in Handlers :
    /\ inv[i].pc = "done"
    /\ inv' = [inv EXCEPT ![i] = IdleHandler]
    /\ UNCHANGED <<policy, allowlist, skillBins, skillFresh>>

NextInvoke ==
  \/ InvokeArrives
  \/ SkillsRefreshed
  \/ SkillsRefreshFailed
  \/ SkillsCached
  \/ ApprovalReturns
  \/ CommandFinishes
  \/ HandlerEnds

\* ================================================================== the session, observed
\* What the last step of the client did, as its peer and its owner see it.
VARIABLES
  out,          \* the frames the step wrote to the socket, in order
  notes,        \* the callbacks of opts the step invoked
  heard,        \* the event the step handled: its kind, its socket, whether
                \*   the client held that socket, and the frame of a data event
  configToken,  \* config.token of runNodeHost
  hellos        \* the tokens of the last two hello frames written, in order

obsVars == <<out, notes, heard, configToken, hellos>>

NoFrame == Frame("none", 0, "")

Quiet == [ev |-> "none", s |-> NoSocket, held |-> FALSE, frame |-> NoFrame]

\* runNodeHost's onPairToken and onAuthReset, up to their await.
ConfigAfter(c, cfg) ==
  IF "onPairToken" \in c.notes THEN c.token
  ELSE IF "onAuthReset" \in c.notes THEN "none"
  ELSE cfg

IsHello(frame) == frame.type = "hello"

\* The tokens of the hello frames among the frames o.
HelloTokens(o) ==
  [i \in 1..Len(SelectSeq(o, IsHello)) |-> SelectSeq(o, IsHello)[i].arg]

LastTwo(q) == IF Len(q) <= 2 THEN q ELSE SubSeq(q, Len(q) - 1, Len(q))

Observes(c, ev, s, frame) ==
  /\ out' = c.out
  /\ hellos' = LastTwo(hellos \o HelloTokens(c.out))
  /\ notes' = c.notes
  /\ heard' = [ev |-> ev, s |-> s, held |-> s # NoSocket /\ socket = s, frame |-> frame]
  /\ configToken' = ConfigAfter(c, configToken)

\* new BridgeClient({token: config.token, ...})
InitObserved ==
  /\ out = <<>>
  /\ notes = {}
  /\ heard = Quiet
  /\ configToken = token
  /\ hellos = <<>>

\* ================================================================== runNodeHost
\* The reconnect loop of runNodeHost around the client.
VARIABLES
  loop,               \* where the loop is: "start" | "connect" (awaiting
                      \*   client.connect()) | "wait" (awaiting waitForDisconnect())
                      \*   | "backoff" (awaiting the 1500 ms timer)
  disconnectResolve,  \* disconnectResolve !== null
  disconnectSignal    \* disconnectSignal

hostVars == <<loop, disconnectResolve, disconnectSignal>>

InitHost ==
  /\ loop = "start"
  /\ disconnectResolve = FALSE
  /\ disconnectSignal = FALSE

\* waitForDisconnect(), and the loop going on to the timer when the promise
\* it returns is already resolved.
waitForDisconnect ==
  IF disconnectSignal
  THEN /\ disconnectSignal' = FALSE
       /\ loop' = "backoff"
       /\ UNCHANGED disconnectResolve
  ELSE /\ disconnectResolve' = TRUE
       /\ loop' = "wait"
       /\ UNCHANGED disconnectSignal

\* Mutant: runNodeHost passes no onDisconnected.
onDisconnected_Deaf(c) == UNCHANGED hostVars

\* opts.onDisconnected, when the step of the client invoked it; the loop
\* goes on to the timer when it resolves the promise the loop awaits.
onDisconnected(c) ==
  IF "onDisconnected" \notin c.notes THEN UNCHANGED hostVars
  ELSE IF disconnectResolve
       THEN /\ disconnectResolve' = FALSE
            /\ loop' = "backoff"
            /\ UNCHANGED disconnectSignal
       ELSE /\ disconnectSignal' = TRUE
            /\ UNCHANGED <<loop, disconnectResolve>>

\* A socket that emitted `error` emits `close` in the same turn of the event
\* loop: no 1500 ms timer fires in between.
NoneClosing == \A s \in SocketIds : sockState[s] \notin {"errored", "destroyed"}

\* The loop calls client.connect(), which opens a socket.
LoopConnects ==
  /\ loop \in {"start", "backoff"}
  /\ NoneClosing
  /\ \E s \in SocketIds :
       ConnectOn(s) /\ Observes(connect(Client, s), "connect()", s, NoFrame)
  /\ loop' = "connect"
  /\ UNCHANGED <<disconnectResolve, disconnectSignal>>

\* The loop calls client.connect(), which returns at once: connected is set.
LoopFindsConnected ==
  /\ loop \in {"start", "backoff"}
  /\ NoneClosing
  /\ connected
  /\ waitForDisconnect
  /\ Observes(Client, "connect()", NoSocket, NoFrame)
  /\ UNCHANGED bridgeVars

\* `await client.connect()` returns or throws.
LoopAfterConnect ==
  /\ loop = "connect"
  /\ helloReady \in {"resolved", "rejected"}
  /\ IF helloReady = "resolved" THEN waitForDisconnect
     ELSE loop' = "backoff" /\ UNCHANGED <<disconnectResolve, disconnectSignal>>
  /\ Observes(Client, "none", NoSocket, NoFrame)
  /\ UNCHANGED bridgeVars

HostSocketConnect ==
  \E s \in SocketIds :
    /\ ConnectedOn(s)
    /\ Observes(sendHello(Client), "connect", s, NoFrame)
    /\ onDisconnected(sendHello(Client))

HostSocketError ==
  \E s \in SocketIds :
    /\ ErrorOn(s)
    /\ Observes(handleDisconnect(Client), "error", s, NoFrame)
    /\ onDisconnected(handleDisconnect(Client))

\* The peer closes a connection.
HostSocketClose ==
  \E s \in SocketIds :
    /\ sockState[s] = "open"
    /\ CloseOn(s)
    /\ Observes(handleDisconnect(Client), "close", s, NoFrame)
    /\ onDisconnected(handleDisconnect(Client))

\* The `close` that follows an `error`.
HostSocketGone ==
  \E s \in SocketIds :
    /\ sockState[s] = "errored"
    /\ CloseOn(s)
    /\ Observes(handleDisconnect(Client), "close", s, NoFrame)
    /\ onDisconnected(handleDisconnect(Client))

\* The frames that act on the session; the host of this model makes no RPC
\* call, and every other frame leaves the client as it is.
SessionFrames ==
  {frame \in InFrames : frame.type \in {"hello-ok", "pair-ok", "error", "ping"}}

HostSocketData ==
  \E s \in SocketIds, frame \in SessionFrames :
    /\ DataFrom(s, frame)
    /\ Observes(handleFrame(Client, s, frame), "data", s, frame)
    /\ onDisconnected(handleFrame(Client, s, frame))

\* ================================================================== the frame codec
\* Lines a peer sends and the chunks the socket delivers them in.
MaxLines == 2

\* The texts of a line: two frames, an object of unknown type, an object
\* without type, the JSON values null and 5, a blank line, a frame between
\* spaces, and a truncated object.
LineTexts ==
  {<<"{", "p", "}">>, <<"{", "e", "}">>, <<"{", "u", "}">>, <<"{", "}">>,
   <<"n">>, <<"5">>, <<>>, <<" ", "{", "p", "}", " ">>, <<"{", "p">>}

RECURSIVE Wires(_)
\* The streams of n lines, each ended by a newline.
Wires(n) ==
  IF n = 0 THEN {<<>>}
  ELSE {w \o t \o <<"\n">> : w \in Wires(n - 1), t \in LineTexts}

\* The streams: up to MaxLines lines, and possibly the start of one more.
Streams ==
  {w \o tail : w \in UNION {Wires(n) : n \in 0..MaxLines}, tail \in {<<>>, <<"{">>}}

VARIABLES
  wire,        \* the bytes the peer sends on the connection
  pos,         \* how many of them `data` events have delivered
  buffer,      \* this.buffer
  dispatched,  \* the values handleFrame was called with, in order
  fault,       \* an exception left the `data` handler
  connects     \* the connections this client has opened

codecVars == <<wire, pos, buffer, dispatched, fault, connects>>

RECURSIVE IndexOfNewline(_, _)
\* buffer.indexOf("\n"), from position i; 0 when there is none.
IndexOfNewline(b, i) ==
  IF i > Len(b) THEN 0
  ELSE IF b[i] = "\n" THEN i
  ELSE IndexOfNewline(b, i + 1)

RECURSIVE TrimStart(_)
TrimStart(l) == IF l # <<>> /\ Head(l) = " " THEN TrimStart(Tail(l)) ELSE l

RECURSIVE TrimEnd(_)
TrimEnd(l) ==
  IF l # <<>> /\ l[Len(l)] = " " THEN TrimEnd(SubSeq(l, 1, Len(l) - 1)) ELSE l

\* line.trim()
Trim(l) == TrimEnd(TrimStart(l))

\* JSON.parse(line): the value, or "SyntaxError" when it throws.
JSONparse(l) ==
  CASE l = <<"{", "p", "}">> -> "ping"
    [] l = <<"{", "e", "}">> -> "event"
    [] l = <<"{", "u", "}">> -> "unknown"
    [] l = <<"{", "}">> -> "untyped"
    [] l = <<"n">> -> "null"
    [] l = <<"5">> -> "number"
    [] l = <<"{", "e", "U+00E9", "}">> -> "event U+00E9"
    [] l = <<"{", "e", "U+FFFD", "U+FFFD", "}">> -> "event U+FFFD U+FFFD"
    [] OTHER -> "SyntaxError"

\* handleFrame(frame) reads frame.type: a TypeError when frame is null.
Throws(value) == value = "null"

RECURSIVE flush(_)
\* flush(), on the codec state k: buffer, dispatched, fault.
flush(k) ==
  LET idx == IndexOfNewline(k.buffer, 1) IN
  IF idx = 0 THEN k
  ELSE LET line == Trim(SubSeq(k.buffer, 1, idx - 1))
           rest == SubSeq(k.buffer, idx + 1, Len(k.buffer))
           k1 == [k EXCEPT !.buffer = rest]
       IN IF line = <<>> THEN flush(k1)
          ELSE IF JSONparse(line) = "SyntaxError" THEN flush(k1)
          ELSE LET k2 == [k1 EXCEPT !.dispatched = Append(@, JSONparse(line))]
               IN IF Throws(JSONparse(line))
                  THEN [k2 EXCEPT !.fault = TRUE]
                  ELSE flush(k2)

\* JSON.stringify(frame), for the frames of this model: a string holding
\* U+00E9 is written as it is, JSON.stringify escapes no such character.
JSONstringify(frame) ==
  CASE frame = "ping" -> <<"{", "p", "}">>
    [] frame = "event" -> <<"{", "e", "}">>
    [] frame = "unknown" -> <<"{", "u", "}">>
    [] frame = "untyped" -> <<"{", "}">>
    [] frame = "event U+00E9" -> <<"{", "e", "U+00E9", "}">>

RECURSIVE Utf8(_)
\* The bytes socket.write(text) sends: one byte for each of the ASCII
\* characters, which stand for their byte, and two for U+00E9.
Utf8(text) ==
  IF text = <<>> THEN <<>>
  ELSE (IF Head(text) = "U+00E9" THEN <<"C3", "A9">> ELSE <<Head(text)>>)
       \o Utf8(Tail(text))

RECURSIVE toStringUtf8(_)
\* chunk.toString("utf8"): a lead byte without its continuation byte in the
\* chunk, and a continuation byte without its lead byte, each decode to
\* U+FFFD.
toStringUtf8(chunk) ==
  IF chunk = <<>> THEN <<>>
  ELSE IF Head(chunk) = "C3"
       THEN IF Len(chunk) >= 2 /\ chunk[2] = "A9"
            THEN <<"U+00E9">> \o toStringUtf8(SubSeq(chunk, 3, Len(chunk)))
            ELSE <<"U+FFFD">> \o toStringUtf8(Tail(chunk))
  ELSE IF Head(chunk) = "A9"
       THEN <<"U+FFFD">> \o toStringUtf8(Tail(chunk))
  ELSE <<Head(chunk)>> \o toStringUtf8(Tail(chunk))

\* The frames send() writes in this model.
SentFrames == {"ping", "event", "unknown", "untyped", "event U+00E9"}

RECURSIVE FrameSeqs(_)
\* The sequences of at most n frames.
FrameSeqs(n) ==
  IF n = 0 THEN {<<>>}
  ELSE FrameSeqs(n - 1)
       \cup {Append(fs, f) : fs \in {g \in FrameSeqs(n - 1) : Len(g) = n - 1},
                             f \in SentFrames}

RECURSIVE Written(_)
\* What send() writes for each of the frames fs, in order.
Written(fs) ==
  IF fs = <<>> THEN <<>>
  ELSE Utf8(JSONstringify(Head(fs)) \o <<"\n">>) \o Written(Tail(fs))

\* The connections of a client in a run of this model.
MaxConnects == 2

InitCodec ==
  /\ wire \in Streams
  /\ pos = 0
  /\ buffer = <<>>
  /\ dispatched = <<>>
  /\ fault = FALSE
  /\ connects = 1

\* A peer that runs the same send(): the stream is what send() wrote.
InitWritten ==
  /\ wire \in {Written(fs) : fs \in FrameSeqs(MaxLines)}
  /\ pos = 0
  /\ buffer = <<>>
  /\ dispatched = <<>>
  /\ fault = FALSE
  /\ connects = 1

CodecAtRest ==
  /\ wire = <<>>
  /\ pos = 0
  /\ buffer = <<>>
  /\ dispatched = <<>>
  /\ fault = FALSE
  /\ connects = 0

\* socket.on("data"): the next n bytes arrive as one chunk.  After a fault
\* the process goes on only if its embedder handles uncaught exceptions.
Data ==
  \E n \in 1..(Len(wire) - pos) :
    LET chunk == SubSeq(wire, pos + 1, pos + n)
        k == flush([buffer |-> buffer \o toStringUtf8(chunk),
                    dispatched |-> dispatched, fault |-> FALSE])
    IN /\ pos' = pos + n
       /\ buffer' = k.buffer
       /\ dispatched' = k.dispatched
       /\ fault' = (fault \/ k.fault)
       /\ UNCHANGED <<wire, connects>>

\* The connection is lost and runNodeHost calls connect() again: a new
\* socket, whose `data` handler appends to the same this.buffer.  Neither
\* handleDisconnect nor connect() assigns this.buffer.
Reconnects ==
  /\ connects < MaxConnects
  /\ connects' = connects + 1
  /\ wire' \in Streams
  /\ pos' = 0
  /\ UNCHANGED <<buffer, dispatched, fault>>

\* ================================================================== runCommand
\* One call of runCommand and the child process it spawns.

\* OUTPUT_CAP, in the unit of this model: the cap is 200,000 bytes.
OUTPUT_CAP == 3

\* The longest chunk a `data` event delivers.
MaxChunk == 2

\* The most the child writes in a run: enough to pass the cap.
MaxProduced == OUTPUT_CAP + 2

RECURSIVE Texts(_)
\* The texts of n characters: a printing character and a blank.
Texts(n) ==
  IF n = 0 THEN {<<>>}
  ELSE {<<ch>> \o w : ch \in {"x", " "}, w \in Texts(n - 1)}

ChunkTexts == UNION {Texts(n) : n \in 1..MaxChunk}

\* An optional number is a sequence of at most one number.
None == <<>>

\* The timeoutMs a request may carry: none, zero, a negative, a positive.
Timeouts == {None, <<0>>, <<-1>>, <<1500>>}

\* exit codes: 0, another code, and none (the child ended by a signal).
ExitCodes == {<<0>>, <<1>>, None}

\* The messages of a child `error` event.
ErrorMessages == {"ENOENT", ""}

VARIABLES
  timeoutMs,   \* the argument timeoutMs
  stdout,      \* stdout
  stderr,      \* stderr
  outputLen,   \* outputLen
  truncated,   \* truncated
  timedOut,    \* timedOut
  settled,     \* settled
  timer,       \* the timeout timer: "none" | "armed" | "fired" | "cleared"
  result,      \* the value the promise resolved with: none before
  resolves,    \* the calls of the promise's resolve
  produced,    \* what the child has written so far, both streams together
  exited,      \* the child emitted `exit`
  errored,     \* the child emitted `error`
  kills,       \* the SIGKILLs sent to the child
  ignored      \* the `error` and `exit` events that came after the result

runVars ==
  <<timeoutMs, stdout, stderr, outputLen, truncated, timedOut, settled, timer,
    result, resolves, produced, exited, errored, kills, ignored>>

\* timeoutMs && timeoutMs > 0
Arms(ms) == ms # None /\ ms[1] > 0

\* runCommand up to the return of the promise executor.
InitRun ==
  /\ timeoutMs \in Timeouts
  /\ stdout = <<>>
  /\ stderr = <<>>
  /\ outputLen = 0
  /\ truncated = FALSE
  /\ timedOut = FALSE
  /\ settled = FALSE
  /\ timer = IF Arms(timeoutMs) THEN "armed" ELSE "none"
  /\ result = None
  /\ resolves = 0
  /\ produced = 0
  /\ exited = FALSE
  /\ errored = FALSE
  /\ kills = 0
  /\ ignored = 0

RunAtRest ==
  /\ timeoutMs = None
  /\ stdout = <<>>
  /\ stderr = <<>>
  /\ outputLen = 0
  /\ truncated = FALSE
  /\ timedOut = FALSE
  /\ settled = FALSE
  /\ timer = "none"
  /\ result = None
  /\ resolves = 0
  /\ produced = 0
  /\ exited = FALSE
  /\ errored = FALSE
  /\ kills = 0
  /\ ignored = 0

\* chunk.subarray(0, remaining) when the chunk is longer than what remains.
SliceOf(chunk, remaining) ==
  IF Len(chunk) > remaining THEN SubSeq(chunk, 1, remaining) ELSE chunk

\* onChunk(chunk, target), on a `data` event of the child's stdout or stderr.
\* The streams can deliver after `exit`: they close on their own.
onChunk ==
  \E chunk \in ChunkTexts, target \in {"stdout", "stderr"} :
    /\ ~errored
    /\ produced + Len(chunk) <= MaxProduced
    /\ produced' = produced + Len(chunk)
    /\ IF outputLen >= OUTPUT_CAP
       THEN /\ truncated' = TRUE
            /\ UNCHANGED <<stdout, stderr, outputLen>>
       ELSE LET remaining == OUTPUT_CAP - outputLen
                slice == SliceOf(chunk, remaining)
            IN /\ outputLen' = outputLen + Len(slice)
               /\ stdout' = IF target = "stdout" THEN stdout \o slice ELSE stdout
               /\ stderr' = IF target = "stderr" THEN stderr \o slice ELSE stderr
               /\ truncated' = (truncated \/ Len(chunk) > remaining)
    /\ UNCHANGED <<timeoutMs, timedOut, settled, timer, result, resolves, exited,
                   errored, kills, ignored>>

\* The setTimeout callback.
TimeoutFires ==
  /\ timer = "armed"
  /\ timer' = "fired"
  /\ timedOut' = TRUE
  /\ kills' = kills + 1
  /\ UNCHANGED <<timeoutMs, stdout, stderr, outputLen, truncated, settled, result,
                 resolves, produced, exited, errored, ignored>>

\* Mutant: success does not look at timedOut.
Succeeds_IgnoresTimeout(exitCode, late, error) ==
  exitCode = <<0>> /\ error \in {Null, ""}

\* exitCode === 0 && !timedOut && !error
Succeeds(exitCode, late, error) ==
  exitCode = <<0>> /\ ~late /\ error \in {Null, ""}

\* Mutant: finalize leaves the timer armed.
TimerAfterFinalize_Kept(tm) == tm

\* if (timer) clearTimeout(timer)
TimerAfterFinalize(tm) == IF tm = "armed" THEN "cleared" ELSE tm

\* Mutant: finalize has no settled guard.
Finalizes_Always(done) == TRUE

\* if (settled) return
Finalizes(done) == ~done

\* finalize(exitCode, error)
finalize(exitCode, error) ==
  IF Finalizes(settled)
  THEN /\ settled' = TRUE
       /\ timer' = TimerAfterFinalize(timer)
       /\ resolves' = resolves + 1
       \* a promise keeps the value of its first resolve
       /\ result' = IF result # None THEN result
                    ELSE <<[exitCode |-> exitCode, timedOut |-> timedOut,
                            success |-> Succeeds(exitCode, timedOut, error),
                            stdout |-> stdout, stderr |-> stderr, error |-> error,
                            truncated |-> truncated]>>
       /\ UNCHANGED ignored
  ELSE /\ ignored' = ignored + 1
       /\ UNCHANGED <<settled, timer, result, resolves>>

\* child.on("error")
ChildError ==
  \E message \in ErrorMessages :
    /\ ~errored
    /\ errored' = TRUE
    /\ finalize(None, message)
    /\ UNCHANGED <<timeoutMs, stdout, stderr, outputLen, truncated, timedOut,
                   produced, exited, kills>>

\* child.on("exit"): code is null when a signal ended the child.
ChildExit ==
  \E code \in ExitCodes :
    /\ ~exited
    /\ exited' = TRUE
    /\ finalize(code, Null)
    /\ UNCHANGED <<timeoutMs, stdout, stderr, outputLen, truncated, timedOut,
                   produced, errored, kills>>

\* What handleInvoke makes of result.stdout and result.stderr: the marker
\* goes to stderr when stderr.trim() is not empty, else to stdout.
IsBlank(text) == \A i \in DOMAIN text : text[i] = " "

Marker == <<"...">>

WithMarker(r) ==
  IF ~r.truncated THEN r
  ELSE IF ~IsBlank(r.stderr)
       THEN [r EXCEPT !.stderr = @ \o Marker]
       ELSE [r EXCEPT !.stdout = @ \o Marker]

\* ================================================================== sanitizeEnv
\* Environment names are sequences of characters; an environment is a
\* function from names to values.

\* blockedEnvKeys
blockedEnvKeys ==
  {<<"P", "A", "T", "H">>,
   <<"N", "O", "D", "E", "_", "O", "P", "T", "I", "O", "N", "S">>,
   <<"P", "Y", "T", "H", "O", "N", "H", "O", "M", "E">>,
   <<"P", "Y", "T", "H", "O", "N", "P", "A", "T", "H">>,
   <<"P", "E", "R", "L", "5", "L", "I", "B">>,
   <<"P", "E", "R", "L", "5", "O", "P", "T">>,
   <<"R", "U", "B", "Y", "O", "P", "T">>}

\* blockedEnvPrefixes
blockedEnvPrefixes == {<<"D", "Y", "L", "D", "_">>, <<"L", "D", "_">>}

\* The keys an override map is built from: blocked names in several
\* spellings, names near a blocked one, free names, and names that are
\* blank or differ only in the blanks around them.
RawKeys ==
  {<<"P", "A", "T", "H">>,
   <<" ", "P", "a", "t", "h", " ">>,
   <<"L", "D", "_", "X">>,
   <<"l", "d", "_", "x">>,
   <<"D", "Y", "L", "D", "_">>,
   <<"L", "D", "X">>,
   <<"P", "A", "T", "H", "S">>,
   <<"F", "O", "O">>,
   <<" ", "F", "O", "O">>,
   <<"f", "o", "o">>,
   <<" ">>,
   <<>>}

EnvValues == {"a", "b"}

\* The most entries an override map has.
MaxOverrides == 2

RECURSIVE EntryLists(_)
\* The lists of n entries whose raw keys differ: Object.entries(overrides).
EntryLists(n) ==
  IF n = 0 THEN {<<>>}
  ELSE {Append(es, [rawKey |-> k, value |-> v]) :
          es \in EntryLists(n - 1), k \in RawKeys, v \in EnvValues}

HasDistinctKeys(es) ==
  \A i, j \in DOMAIN es : i # j => es[i].rawKey # es[j].rawKey

OverrideMaps ==
  {es \in UNION {EntryLists(n) : n \in 0..MaxOverrides} : HasDistinctKeys(es)}

\* process.env
ProcessEnv ==
  [k \in {<<"P", "A", "T", "H">>, <<"H", "O", "M", "E">>} |->
     IF k = <<"P", "A", "T", "H">> THEN "/usr/bin" ELSE "/root"]

\* One character of toUpperCase(), on the letters the keys are written in.
UpperChar(ch) ==
  CASE ch = "a" -> "A" [] ch = "d" -> "D" [] ch = "f" -> "F" [] ch = "h" -> "H"
    [] ch = "l" -> "L" [] ch = "o" -> "O" [] ch = "p" -> "P" [] ch = "t" -> "T"
    [] ch = "x" -> "X" [] OTHER -> ch

\* key.toUpperCase()
toUpperCase(key) == [i \in DOMAIN key |-> UpperChar(key[i])]

\* upper.startsWith(prefix)
startsWith(text, prefix) ==
  Len(text) >= Len(prefix) /\ SubSeq(text, 1, Len(prefix)) = prefix

\* Mutant: the denylist is compared with the key as written.
IsBlockedKey_CaseSensitive(key) ==
  \/ key \in blockedEnvKeys
  \/ \E prefix \in blockedEnvPrefixes : startsWith(key, prefix)

\* blockedEnvKeys.has(upper) || blockedEnvPrefixes.some(...)
IsBlockedKey(key) ==
  \/ toUpperCase(key) \in blockedEnvKeys
  \/ \E prefix \in blockedEnvPrefixes : startsWith(toUpperCase(key), prefix)

\* merged[key] = value
SetEnv(merged, key, value) ==
  [k \in DOMAIN merged \cup {key} |-> IF k = key THEN value ELSE merged[k]]

RECURSIVE MergeOverrides(_, _)
\* The loop of sanitizeEnv over the entries es, from the environment merged.
MergeOverrides(merged, es) ==
  IF es = <<>> THEN merged
  ELSE LET key == Trim(Head(es).rawKey)
       IN IF key = <<>> THEN MergeOverrides(merged, Tail(es))
          ELSE IF IsBlockedKey(key) THEN MergeOverrides(merged, Tail(es))
          ELSE MergeOverrides(SetEnv(merged, key, Head(es).value), Tail(es))

\* sanitizeEnv(overrides), for an override map
sanitizeEnv(overrides) == MergeOverrides(ProcessEnv, overrides)

VARIABLES
  overrides,   \* the argument of sanitizeEnv: the entries of the override map
  sanitized,   \* sanitizeEnv has returned
  childEnv     \* the environment it returned

envVars == <<overrides, sanitized, childEnv>>

InitEnv ==
  /\ overrides \in OverrideMaps
  /\ sanitized = FALSE
  /\ childEnv = ProcessEnv

EnvAtRest ==
  /\ overrides = <<>>
  /\ sanitized = FALSE
  /\ childEnv = ProcessEnv

\* const env = sanitizeEnv(params.env ?? undefined)
Sanitize ==
  /\ ~sanitized
  /\ sanitized' = TRUE
  /\ childEnv' = sanitizeEnv(overrides)
  /\ UNCHANGED overrides

\* ================================================================== SkillBinsCache
\* A sequence of skillBins.current() calls, seen from outside the cache.

\* The names the skills.bins lookup returns in these calls.
CacheNames == {"ls", "git", "rg"}

\* The calls of current() in a run.
MaxCurrent == 3

VARIABLES
  lastGood,     \* the set of the last refresh that succeeded, none before
  lastCurrent,  \* how the last current() went: "none" | "refreshed" | "failed" | "cached"
  returned,     \* the set the last current() returned
  currents,     \* the calls of current() so far
  elapsed       \* Date.now() - lastRefresh, once lastRefresh is set

cacheVars == <<lastGood, lastCurrent, returned, currents, elapsed>>

\* The time a refreshed set is served without a new lookup, in clock steps.
ttlMs == 1

\* current(): whether the call refreshes. With lastRefresh still 0 the time
\* since it is the time since the epoch, beyond any ttl.
Refreshes(force) == force \/ ~skillFresh \/ elapsed > ttlMs

InitCache ==
  /\ lastGood = None
  /\ lastCurrent = "none"
  /\ returned = {}
  /\ currents = 0
  /\ elapsed = 0

\* current(), when it refreshes and the lookup succeeds.
CurrentRefreshes ==
  \E fetched \in SUBSET CacheNames, force \in BOOLEAN :
    /\ currents < MaxCurrent
    /\ Refreshes(force)
    /\ elapsed' = 0
    /\ currents' = currents + 1
    /\ skillBins' = BinsAfterRefresh(skillBins, fetched)
    /\ skillFresh' = TRUE
    /\ lastGood' = <<fetched>>
    /\ lastCurrent' = "refreshed"
    /\ returned' = skillBins'
    /\ UNCHANGED <<policy, allowlist, inv>>

\* current(), when it refreshes and the lookup fails.
CurrentFails ==
  \E force \in BOOLEAN :
    /\ currents < MaxCurrent
    /\ Refreshes(force)
    /\ currents' = currents + 1
    /\ skillBins' = BinsAfterFailure(skillBins, skillFresh)
    /\ lastCurrent' = "failed"
    /\ returned' = skillBins'
    /\ UNCHANGED <<policy, allowlist, inv, skillFresh, lastGood, elapsed>>

\* current(), when the cache is not stale: lastRefresh is set and recent.
CurrentCached ==
  /\ currents < MaxCurrent
  /\ ~Refreshes(FALSE)
  /\ currents' = currents + 1
  /\ lastCurrent' = "cached"
  /\ returned' = skillBins
  /\ UNCHANGED <<invokeVars, lastGood, elapsed>>

\* The clock advances between calls.
TimePasses ==
  /\ skillFresh
  /\ elapsed <= ttlMs
  /\ elapsed' = elapsed + 1
  /\ UNCHANGED <<invokeVars, lastGood, lastCurrent, returned, currents>>

\* ================================================================== TLS pinning
\* The client of runNodeHost with gateway.tls set: every socket is a
\* tls.TLSSocket, which emits `connect`, then `secureConnect` when the
\* handshake is done, and `data` only after that.

HexDigits ==
  {"0", "1", "2", "3", "4", "5", "6", "7", "8", "9",
   "a", "b", "c", "d", "e", "f", "A", "B", "C", "D", "E", "F"}

IsHexDigit(ch) == ch \in HexDigits

LowerChar(ch) ==
  CASE ch = "A" -> "a" [] ch = "B" -> "b" [] ch = "C" -> "c"
    [] ch = "D" -> "d" [] ch = "E" -> "e" [] ch = "F" -> "f"
    [] OTHER -> ch

\* normalizeFingerprint(input), on a string as the tuple of its characters.
normalizeFingerprint(input) ==
  LET hex == SelectSeq(input, IsHexDigit)
  IN [k \in 1..Len(hex) |-> LowerChar(hex[k])]

\* extractFingerprint(raw): none when raw has no fingerprint256 or an empty
\* one.  A certificate is given by its fingerprint256, none when it has none.
extractFingerprint(raw) ==
  IF raw = None \/ raw = <<<<>>>> THEN None
  ELSE <<normalizeFingerprint(raw[1])>>

\* The test of the secureConnect handler; cert is what getPeerCertificate
\* returned, none when it returned nothing.
PinFails(cert, pin) ==
  LET fingerprint == IF cert = None THEN None ELSE extractFingerprint(cert[1])
  IN \/ fingerprint = None
     \/ fingerprint[1] = <<>>
     \/ fingerprint[1] # normalizeFingerprint(pin)

\* opts.tlsFingerprint: not set, or a pin as the operator wrote it.
Pins == {None, <<<<"a", "B">>>>, <<<<"A", ":", "b">>>>, <<<<":">>>>}

\* What getPeerCertificate(true) may return: nothing, a certificate without
\* fingerprint256, or one with the fingerprint as Node formats it.
PeerCertificates == {None, <<None>>, <<<<<<"A", "B">>>>>>, <<<<<<"C", "D">>>>>>}

\* The frames a gateway sends while the session is set up.
TlsFrames == {Frame("hello-ok", 0, ""), Frame("error", 0, "OTHER")}

VARIABLES
  tlsFingerprint,  \* opts.tlsFingerprint
  tlsState,        \* each socket's handshake: "none" | "handshake" | "secured" |
                   \*   "aborted" (the pin test failed)
  attempt          \* the promise of the connect() call that opened each socket:
                   \*   "none" | "pending" | "resolved" | "rejected"

tlsVars == <<tlsFingerprint, tlsState, attempt>>

TlsAtRest ==
  /\ tlsFingerprint = None
  /\ tlsState = [s \in SocketIds |-> "none"]
  /\ attempt = [s \in SocketIds |-> "none"]

InitTls ==
  /\ tlsFingerprint \in Pins
  /\ tlsState = [s \in SocketIds |-> "none"]
  /\ attempt = [s \in SocketIds |-> "none"]

\* The socket the last connect() opened, NoSocket before the first.
LatestSocket(st) ==
  LET opened == {s \in SocketIds : st[s] # "unopened"}
  IN IF opened = {} THEN NoSocket ELSE CHOOSE s \in opened : \A t \in opened : t <= s

\* this.helloReady is the promise of the last connect() call.
TracksAttempt ==
  attempt' = [s \in SocketIds |->
                IF s = LatestSocket(sockState') THEN helloReady' ELSE attempt[s]]

TlsLoopConnects ==
  /\ LoopConnects
  /\ tlsState' = [tlsState EXCEPT ![socket'] = "handshake"]
  /\ TracksAttempt
  /\ UNCHANGED tlsFingerprint

TlsLoopFindsConnected ==
  /\ LoopFindsConnected
  /\ TracksAttempt
  /\ UNCHANGED <<tlsFingerprint, tlsState>>

TlsLoopAfterConnect ==
  /\ LoopAfterConnect
  /\ TracksAttempt
  /\ UNCHANGED <<tlsFingerprint, tlsState>>

TlsSocketConnect ==
  /\ HostSocketConnect
  /\ TracksAttempt
  /\ UNCHANGED <<tlsFingerprint, tlsState>>

TlsSocketError ==
  /\ HostSocketError
  /\ TracksAttempt
  /\ UNCHANGED <<tlsFingerprint, tlsState>>

TlsSocketClose ==
  /\ HostSocketClose
  /\ TracksAttempt
  /\ UNCHANGED <<tlsFingerprint, tlsState>>

\* The `close` of a socket that emitted `error` or was destroyed.  The
\* `error` that destroy(err) emits runs in the same turn, just before, and
\* calls handleDisconnect on the state this `close` finds.
TlsSocketGone ==
  /\ \E s \in SocketIds :
       /\ sockState[s] \in {"errored", "destroyed"}
       /\ CloseOn(s)
       /\ Observes(handleDisconnect(Client), "close", s, NoFrame)
       /\ onDisconnected(handleDisconnect(Client))
  /\ TracksAttempt
  /\ UNCHANGED <<tlsFingerprint, tlsState>>

\* socket.once("secureConnect") with a pin configured, and the end of the
\* handshake when none is: the handler is not installed.
SecureConnectOn(s, cert) ==
  /\ sockState[s] = "open"
  /\ tlsState[s] = "handshake"
  /\ IF tlsFingerprint # None /\ tlsFingerprint[1] # <<>>
        /\ PinFails(cert, tlsFingerprint[1])
     THEN /\ Becomes(handleDisconnect(Client))
          /\ sockState' = [sockState EXCEPT ![s] = "destroyed"]
          /\ tlsState' = [tlsState EXCEPT ![s] = "aborted"]
          /\ Observes(handleDisconnect(Client), "secureConnect", s, NoFrame)
          /\ onDisconnected(handleDisconnect(Client))
     ELSE /\ tlsState' = [tlsState EXCEPT ![s] = "secured"]
          /\ Observes(Client, "secureConnect", s, NoFrame)
          /\ UNCHANGED <<bridgeVars, hostVars>>
  /\ TracksAttempt
  /\ UNCHANGED tlsFingerprint

SecureConnect == \E s \in SocketIds, cert \in PeerCertificates : SecureConnectOn(s, cert)

\* socket.on("data"): a TLS socket delivers data once its handshake is done.
TlsSocketData ==
  /\ \E s \in SocketIds, frame \in TlsFrames :
       /\ tlsState[s] = "secured"
       /\ DataFrom(s, frame)
       /\ Observes(handleFrame(Client, s, frame), "data", s, frame)
       /\ onDisconnected(handleFrame(Client, s, frame))
  /\ TracksAttempt
  /\ UNCHANGED <<tlsFingerprint, tlsState>>

\* ================================================================== run and report
\* handleInvoke activations running commands while the loop of runNodeHost
\* loses and re-establishes the connection.
VARIABLES
  lost  \* for each activation: the client let go of its socket while the
        \*   activation's process was running

linkVars == <<lost>>

\* One activation: one command runs while the connection comes and goes.
LinkHandlers == {1}

LinkAtRest == lost = [i \in LinkHandlers |-> FALSE]

\* sendEvent and sendInvokeResponse build a frame and hand it to send().
AsFrame(m) == Frame(m.kind, 0, m.what)

RECURSIVE SendAll(_, _)
\* The client after handleInvoke passed the messages ms to it, in order.
SendAll(c, ms) ==
  IF ms = <<>> THEN c ELSE SendAll(send(c, AsFrame(Head(ms))), Tail(ms))

\* What the activations added to their `sent` in this step, passed to the
\* client as it is when the step runs.
Reporting ==
  LET acting == {i \in Handlers : Len(inv'[i].sent) > Len(inv[i].sent)}
      ms == IF acting = {} THEN <<>>
            ELSE LET i == CHOOSE j \in acting : TRUE
                 IN SubSeq(inv'[i].sent, Len(inv[i].sent) + 1, Len(inv'[i].sent))
  IN SendAll(Client, ms)

\* handleDisconnect and the socket handlers do not touch a running process.
Loses ==
  lost' = [i \in Handlers |->
             lost[i] \/ (inv[i].pc = "run" /\ socket # NoSocket /\ socket' = NoSocket)]

\* The frames of a gateway that matter to the connection.
LinkFrames == {Frame("hello-ok", 0, ""), Frame("error", 0, "OTHER")}

LinkLoopConnects == LoopConnects /\ Loses /\ UNCHANGED invokeVars

LinkLoopFindsConnected == LoopFindsConnected /\ Loses /\ UNCHANGED invokeVars

LinkLoopAfterConnect == LoopAfterConnect /\ Loses /\ UNCHANGED invokeVars

LinkSocketConnect == HostSocketConnect /\ Loses /\ UNCHANGED invokeVars

LinkSocketError == HostSocketError /\ Loses /\ UNCHANGED invokeVars

LinkSocketClose == HostSocketClose /\ Loses /\ UNCHANGED invokeVars

LinkSocketGone == HostSocketGone /\ Loses /\ UNCHANGED invokeVars

LinkSocketData ==
  /\ \E s \in SocketIds, frame \in LinkFrames :
       /\ DataFrom(s, frame)
       /\ Observes(handleFrame(Client, s, frame), "data", s, frame)
       /\ onDisconnected(handleFrame(Client, s, frame))
  /\ Loses
  /\ UNCHANGED invokeVars

\* An `invoke` frame for system.run read from an open socket: handleFrame
\* hands it to onInvoke, and handleInvoke runs to its first await.
LinkInvokeArrives ==
  /\ \E s \in SocketIds : sockState[s] = "open"
  /\ \E i \in Handlers, r \in Requests :
       /\ NoneReturning
       /\ inv[i].pc = "idle"
       /\ Lands(i, Begin(World(i), "run", r.cmd, r.agent, FALSE, TRUE), FALSE)
  /\ UNCHANGED <<policy, skillBins, skillFresh>>
  /\ Becomes(Reporting)
  /\ Observes(Reporting, "invoke", socket, NoFrame)
  /\ UNCHANGED <<sockState, hostVars, lost>>

\* runCommand resolves: handleInvoke reports to the client as it is now.
LinkCommandFinishes ==
  /\ CommandFinishes
  /\ Becomes(Reporting)
  /\ Observes(Reporting, "finished", socket, NoFrame)
  /\ UNCHANGED <<sockState, hostVars, lost>>

LinkHandlerEnds ==
  /\ HandlerEnds
  /\ lost' = [i \in Handlers |-> lost[i] /\ inv'[i].pc # "idle"]
  /\ Observes(Client, "none", NoSocket, NoFrame)
  /\ UNCHANGED <<bridgeVars, hostVars>>

\* ================================================================== plugin validation
\* validateConfigObjectWithPlugins on a configuration and a manifest registry.

\* Plugin ids: one with a manifest, one without, and a blank string.
PluginIds == {"discord", "missing-plugin", " "}

\* The longest plugins.allow list.
MaxAllow == 2

RECURSIVE IdLists(_)
\* The lists of at most n plugin ids.
IdLists(n) ==
  IF n = 0 THEN {<<>>}
  ELSE IdLists(n - 1)
       \cup {Append(l, id) : l \in {m \in IdLists(n - 1) : Len(m) = n - 1},
                             id \in PluginIds}

\* The issues validateConfigObject returns for a configuration it rejects.
BaseIssues == <<[path |-> <<"agents.list">>, message |-> <<"duplicate agentDir">>]>>

\* What the registry reports of a load path: nothing, an error, a warning.
Diagnostics == {<<>>, <<"error">>, <<"warn">>}

\* The inputs: whether validateConfigObject accepts the configuration, its
\* plugins section, normalizedPlugins.slots.memory, the registry's plugin
\* ids and diagnostics, and whether channels holds an unknown channel id.
RawConfigs ==
  [baseOk : BOOLEAN,
   enabled : BOOLEAN,
   entries : IdLists(1),
   allow : IdLists(MaxAllow),
   deny : IdLists(1),
   memorySlot : {None} \cup {<<id>> : id \in PluginIds},
   knownIds : SUBSET {"discord"},
   diagnostics : Diagnostics,
   unknownChannel : BOOLEAN]

VARIABLES
  raw,    \* the argument of validateConfigObjectWithPlugins and its registry
  res     \* what the call returned, None before it

pluginVars == <<raw, res>>

PluginsAtRest ==
  /\ raw = None
  /\ res = None

InitPlugins ==
  /\ raw \in RawConfigs
  /\ res = None

\* { path, message: `plugin not found: ${pluginId}` }
NotFound(path, pluginId) ==
  [path |-> path, message |-> <<"plugin not found: ", pluginId>>]

Skips_Never(pluginId) == FALSE

\* typeof pluginId !== "string" || !pluginId.trim(): the ids of this model
\* are strings.
Skips(pluginId) == pluginId \in {"", " "}

RECURSIVE EntryIssues(_, _)
\* The loop over Object.keys(entries).
EntryIssues(keys, knownIds) ==
  IF keys = <<>> THEN <<>>
  ELSE (IF Head(keys) \notin knownIds
        THEN <<NotFound(<<"plugins.entries", Head(keys)>>, Head(keys))>>
        ELSE <<>>)
       \o EntryIssues(Tail(keys), knownIds)

RECURSIVE ListIssues(_, _, _)
\* The loops over plugins.allow and plugins.deny.
ListIssues(path, ids, knownIds) ==
  IF ids = <<>> THEN <<>>
  ELSE (IF Skips(Head(ids)) THEN <<>>
        ELSE IF Head(ids) \notin knownIds THEN <<NotFound(<<path>>, Head(ids))>>
        ELSE <<>>)
       \o ListIssues(path, Tail(ids), knownIds)

\* The test of normalizedPlugins.slots.memory.
SlotIssues(memorySlot, knownIds) ==
  IF memorySlot # None /\ ~Skips(memorySlot[1]) /\ memorySlot[1] \notin knownIds
  THEN <<NotFound(<<"plugins.slots.memory">>, memorySlot[1])>>
  ELSE <<>>

\* The issue and the warning of a registry diagnostic.
DiagnosticIssues(diagnostics, level) ==
  IF diagnostics = <<level>>
  THEN <<[path |-> <<"plugins.load.paths">>,
          message |-> <<"plugin: plugin path not found">>]>>
  ELSE <<>>

\* The issue of a channel id no plugin declares.
ChannelIssues(unknownChannel) ==
  IF unknownChannel
  THEN <<[path |-> <<"channels", "nope">>, message |-> <<"unknown channel id: ", "nope">>]>>
  ELSE <<>>

\* validateConfigObjectWithPlugins(raw): ok, issues (none when ok) and warnings.
validateConfigObjectWithPlugins(r) ==
  IF ~r.baseOk THEN [ok |-> FALSE, issues |-> BaseIssues, warnings |-> <<>>]
  ELSE LET issues ==
             DiagnosticIssues(r.diagnostics, "error")
             \o EntryIssues(r.entries, r.knownIds)
             \o ListIssues("plugins.allow", r.allow, r.knownIds)
             \o ListIssues("plugins.deny", r.deny, r.knownIds)
             \o SlotIssues(r.memorySlot, r.knownIds)
             \o ChannelIssues(r.unknownChannel)
           warnings == DiagnosticIssues(r.diagnostics, "warn")
       IN [ok |-> issues = <<>>, issues |-> issues, warnings |-> warnings]

\* One call.
Validates ==
  /\ res = None
  /\ res' = <<validateConfigObjectWithPlugins(raw)>>
  /\ UNCHANGED raw

\* ================================================================== specifications
\* The parts of the node host that the specifications of the session, the
\* codec and handleInvoke leave alone.
laterVars == <<runVars, envVars, cacheVars, tlsVars, linkVars, pluginVars>>

LaterAtRest ==
  RunAtRest /\ EnvAtRest /\ InitCache /\ TlsAtRest /\ LinkAtRest /\ PluginsAtRest

vars == <<bridgeVars, obsVars, hostVars, codecVars, invokeVars, laterVars>>

\* The node host with no invoke in flight, under one policy.
InvokeAtRest ==
  /\ policy = [security |-> "deny", ask |-> "never", askFallback |-> "deny",
               autoAllowSkills |-> FALSE]
  /\ allowlist = {}
  /\ skillBins = {}
  /\ skillFresh = FALSE
  /\ inv = [i \in 1..MaxInFlight |-> IdleHandler]

\* The client before connect().
BridgeAtRest ==
  /\ InitBridge
  /\ token = "none"

offBridge == <<obsVars, hostVars, codecVars, invokeVars, laterVars>>

Init ==
  InitBridge /\ InitObserved /\ InitHost /\ CodecAtRest /\ InvokeAtRest /\ LaterAtRest

Next ==
  \/ Connect /\ UNCHANGED offBridge
  \/ Close /\ UNCHANGED offBridge
  \/ Request /\ UNCHANGED offBridge
  \/ TimerFires /\ UNCHANGED offBridge
  \/ SocketConnect /\ UNCHANGED offBridge
  \/ SocketError /\ UNCHANGED offBridge
  \/ SocketClose /\ UNCHANGED offBridge
  \/ SocketData /\ UNCHANGED offBridge

\* The BridgeClient session and its RPC calls.
Spec == Init /\ [][Next]_vars

\* The frames that act on the connection or on an RPC call, and one that
\* does neither.
RpcFrames == {frame \in InFrames : frame.type \in {"hello-ok", "error", "res", "event"}}

RpcSocketData == \E s \in SocketIds, frame \in RpcFrames : DataFrom(s, frame)

InitRpc ==
  BridgeAtRest /\ InitObserved /\ InitHost /\ CodecAtRest /\ InvokeAtRest /\ LaterAtRest

NextRpc ==
  \/ Connect /\ UNCHANGED offBridge
  \/ Close /\ UNCHANGED offBridge
  \/ Request /\ UNCHANGED offBridge
  \/ TimerFires /\ UNCHANGED offBridge
  \/ SocketConnect /\ UNCHANGED offBridge
  \/ SocketError /\ UNCHANGED offBridge
  \/ SocketClose /\ UNCHANGED offBridge
  \/ RpcSocketData /\ UNCHANGED offBridge

\* The RPC calls of a client that holds no token: request(), its timer, the
\* `res` frames and the ways the connection ends.
SpecRpc == InitRpc /\ [][NextRpc]_vars

offInvoke == <<bridgeVars, obsVars, hostVars, codecVars, laterVars>>

InitI ==
  BridgeAtRest /\ InitObserved /\ InitHost /\ CodecAtRest /\ InitInvoke /\ LaterAtRest

NextI ==
  \/ InvokeArrives /\ UNCHANGED offInvoke
  \/ SkillsRefreshed /\ UNCHANGED offInvoke
  \/ SkillsRefreshFailed /\ UNCHANGED offInvoke
  \/ SkillsCached /\ UNCHANGED offInvoke
  \/ ApprovalReturns /\ UNCHANGED offInvoke
  \/ CommandFinishes /\ UNCHANGED offInvoke
  \/ HandlerEnds /\ UNCHANGED offInvoke

\* The handleInvoke activations.
SpecInvoke == InitI /\ [][NextI]_vars

\* One policy that reaches every await of handleInvoke, and one activation
\* more than SpecInvoke has: a second invoke frame can arrive while the
\* handler of the first is suspended.
InitX ==
  /\ BridgeAtRest /\ InitObserved /\ InitHost /\ CodecAtRest /\ LaterAtRest
  /\ policy = [security |-> "allowlist", ask |-> "on-miss", askFallback |-> "deny",
               autoAllowSkills |-> TRUE]
  /\ allowlist = {}
  /\ skillBins = {}
  /\ skillFresh = FALSE
  /\ inv = [i \in 1..(MaxInFlight + 1) |-> IdleHandler]

\* handleInvoke activations started by invoke frames that arrive close
\* together.
SpecInterleave == InitX /\ [][NextI]_vars

offHost == <<codecVars, invokeVars, laterVars>>

InitH ==
  InitBridge /\ InitObserved /\ InitHost /\ CodecAtRest /\ InvokeAtRest /\ LaterAtRest

NextH ==
  \/ LoopConnects /\ UNCHANGED offHost
  \/ LoopFindsConnected /\ UNCHANGED offHost
  \/ LoopAfterConnect /\ UNCHANGED offHost
  \/ HostSocketConnect /\ UNCHANGED offHost
  \/ HostSocketError /\ UNCHANGED offHost
  \/ HostSocketClose /\ UNCHANGED offHost
  \/ HostSocketGone /\ UNCHANGED offHost
  \/ HostSocketData /\ UNCHANGED offHost

\* The loop's timer fires and its call of connect() runs, whichever way
\* connect() goes; its continuations run when they are due; and a socket
\* that emitted `error` emits `close`.
FairHost ==
  /\ WF_vars((LoopConnects \/ LoopFindsConnected) /\ UNCHANGED offHost)
  /\ WF_vars(LoopAfterConnect /\ UNCHANGED offHost)
  /\ WF_vars(HostSocketGone /\ UNCHANGED offHost)

\* The client driven by the reconnect loop of runNodeHost.
SpecHost == InitH /\ [][NextH]_vars /\ FairHost

offCodec == <<bridgeVars, obsVars, hostVars, invokeVars, laterVars>>

InitC ==
  BridgeAtRest /\ InitObserved /\ InitHost /\ InitCodec /\ InvokeAtRest /\ LaterAtRest

NextC == Data /\ UNCHANGED offCodec

\* One connection's byte stream through the `data` handler and flush().
SpecCodec == InitC /\ [][NextC]_vars

InitW ==
  BridgeAtRest /\ InitObserved /\ InitHost /\ InitWritten /\ InvokeAtRest /\ LaterAtRest

\* What send() wrote, through the `data` handler and flush().
SpecWritten == InitW /\ [][NextC]_vars

NextA ==
  \/ Data /\ UNCHANGED offCodec
  \/ Reconnects /\ UNCHANGED offCodec

\* The streams of a client's successive connections.
SpecReconnect == InitC /\ [][NextA]_vars

\* The session, the codec and handleInvoke at rest.
EarlierAtRest ==
  BridgeAtRest /\ InitObserved /\ InitHost /\ CodecAtRest /\ InvokeAtRest

earlierVars == <<bridgeVars, obsVars, hostVars, codecVars, invokeVars>>

offRun == <<earlierVars, envVars, cacheVars, tlsVars, linkVars, pluginVars>>

InitR ==
  /\ EarlierAtRest /\ InitRun /\ EnvAtRest /\ InitCache /\ TlsAtRest /\ LinkAtRest
  /\ PluginsAtRest

NextR ==
  \/ onChunk /\ UNCHANGED offRun
  \/ TimeoutFires /\ UNCHANGED offRun
  \/ ChildError /\ UNCHANGED offRun
  \/ ChildExit /\ UNCHANGED offRun

\* One call of runCommand.
SpecRun == InitR /\ [][NextR]_vars

offEnv == <<earlierVars, runVars, cacheVars, tlsVars, linkVars, pluginVars>>

InitE ==
  /\ EarlierAtRest /\ RunAtRest /\ InitEnv /\ InitCache /\ TlsAtRest /\ LinkAtRest
  /\ PluginsAtRest

NextE == Sanitize /\ UNCHANGED offEnv

\* sanitizeEnv on an override map.
SpecEnv == InitE /\ [][NextE]_vars

offCache ==
  <<bridgeVars, obsVars, hostVars, codecVars, runVars, envVars, tlsVars, linkVars,
    pluginVars>>

InitK ==
  /\ EarlierAtRest /\ RunAtRest /\ EnvAtRest /\ InitCache /\ TlsAtRest /\ LinkAtRest
  /\ PluginsAtRest

NextK ==
  \/ CurrentRefreshes /\ UNCHANGED offCache
  \/ CurrentFails /\ UNCHANGED offCache
  \/ CurrentCached /\ UNCHANGED offCache
  \/ TimePasses /\ UNCHANGED offCache

\* A sequence of SkillBinsCache.current() calls.
SpecCache == InitK /\ [][NextK]_vars

offTls == <<codecVars, invokeVars, runVars, envVars, cacheVars, linkVars, pluginVars>>

InitT ==
  /\ BridgeAtRest /\ InitObserved /\ InitHost /\ CodecAtRest /\ InvokeAtRest
  /\ RunAtRest /\ EnvAtRest /\ InitCache /\ InitTls /\ LinkAtRest /\ PluginsAtRest

NextT ==
  \/ TlsLoopConnects /\ UNCHANGED offTls
  \/ TlsLoopFindsConnected /\ UNCHANGED offTls
  \/ TlsLoopAfterConnect /\ UNCHANGED offTls
  \/ TlsSocketConnect /\ UNCHANGED offTls
  \/ SecureConnect /\ UNCHANGED offTls
  \/ TlsSocketError /\ UNCHANGED offTls
  \/ TlsSocketClose /\ UNCHANGED offTls
  \/ TlsSocketGone /\ UNCHANGED offTls
  \/ TlsSocketData /\ UNCHANGED offTls

\* The client of runNodeHost over TLS, with and without a fingerprint pin.
SpecTls == InitT /\ [][NextT]_vars

offLink == <<codecVars, runVars, envVars, cacheVars, tlsVars, pluginVars>>

\* A policy under which every well-formed system.run request is spawned.
InitL ==
  /\ BridgeAtRest /\ InitObserved /\ InitHost /\ CodecAtRest
  /\ RunAtRest /\ EnvAtRest /\ InitCache /\ TlsAtRest /\ LinkAtRest /\ PluginsAtRest
  /\ policy = [security |-> "open", ask |-> "never", askFallback |-> "deny",
               autoAllowSkills |-> FALSE]
  /\ allowlist = {}
  /\ skillBins = {}
  /\ skillFresh = FALSE
  /\ inv = [i \in LinkHandlers |-> IdleHandler]

NextL ==
  \/ LinkLoopConnects /\ UNCHANGED offLink
  \/ LinkLoopFindsConnected /\ UNCHANGED offLink
  \/ LinkLoopAfterConnect /\ UNCHANGED offLink
  \/ LinkSocketConnect /\ UNCHANGED offLink
  \/ LinkSocketError /\ UNCHANGED offLink
  \/ LinkSocketClose /\ UNCHANGED offLink
  \/ LinkSocketGone /\ UNCHANGED offLink
  \/ LinkSocketData /\ UNCHANGED offLink
  \/ LinkInvokeArrives /\ UNCHANGED offLink
  \/ LinkCommandFinishes /\ UNCHANGED offLink
  \/ LinkHandlerEnds /\ UNCHANGED offLink

\* Commands running across the loss and the return of the connection.
SpecLink == InitL /\ [][NextL]_vars

offPlugins == <<earlierVars, runVars, envVars, cacheVars, tlsVars, linkVars>>

InitP ==
  /\ EarlierAtRest /\ RunAtRest /\ EnvAtRest /\ InitCache /\ TlsAtRest /\ LinkAtRest
  /\ InitPlugins

NextP == Validates /\ UNCHANGED offPlugins

\* validateConfigObjectWithPlugins on a configuration.
SpecPlugins == InitP /\ [][NextP]_vars

\* ------------------------------------------------------------------ claims
Settled(id) == calls[id].state \in {"resolved", "rejected"}

\* A `res` frame for call id, read from any open socket, changes nothing.
LateResIsNoOp(id) ==
  \A s \in SocketIds : handleFrame(Client, s, Frame("res", id, "")) = Client

\* C1: no `req` frame is written to the socket while the session is not Ready
\* (no hello-ok received yet): every `req` written was written with
\* connected = true.
C1_NoReqBeforeReady ==
  \A w \in written : w.type = "req" => w.ready

\* C9: every request() is settled exactly once, by a `res` frame, its timeout,
\* a disconnect or close(): resolve/reject is never invoked twice for a call;
\* a call not yet settled is in the table with its timer armed; a settled call
\* is absent from the table, its timer is not armed, and a `res` frame for its
\* id changes nothing.
C9_SettledExactlyOnce ==
  \A id \in CallIds :
    /\ calls[id].settles <= 1
    /\ calls[id].state = "pending" =>
         /\ calls[id].settles = 0
         /\ id \in pendingRpc
         /\ id \in timers
    /\ Settled(id) =>
         /\ calls[id].settles = 1
         /\ calls[id].by \in {"res", "timeout", "disconnect", "closed"}
         /\ id \notin pendingRpc
         /\ id \notin timers
         /\ LateResIsNoOp(id)

\* C9 witness: one call was settled by a disconnect and a later one by its
\* `res` frame.
C9_Witness ==
  /\ calls[1].by = "disconnect"
  /\ calls[2].by = "res"

\* C10: a request() whose timer fires (no `res` within the timeout) is rejected
\* with the timeout error and its entry is removed from the table, so that a
\* `res` frame for its id arriving afterwards is a no-op.
C10_TimeoutLaw ==
  \A id \in fired :
    /\ calls[id].state = "rejected"
    /\ calls[id].by = "timeout"
    /\ id \notin pendingRpc
    /\ LateResIsNoOp(id)

\* C10 witness: a call has timed out while a socket is open, on which a late
\* `res` can still arrive.
C10_Witness ==
  \E id \in fired, s \in SocketIds :
    /\ calls[id].by = "timeout"
    /\ sockState[s] = "open"
    /\ socket = s

\* C11: with any number of calls outstanding and in any order of arrival, a
\* `res` frame settles exactly the call whose id it carries: that call, if
\* pending, is resolved and leaves the table with its timer; every other
\* call, table entry and timer is as before.
C11_ResSettlesItsCall ==
  \A s \in SocketIds, id \in CallIds :
    LET c == handleFrame(Client, s, Frame("res", id, ""))
    IN /\ \A j \in CallIds \ {id} :
            /\ c.calls[j] = calls[j]
            /\ j \in c.pendingRpc <=> j \in pendingRpc
            /\ j \in c.timers <=> j \in timers
       /\ calls[id].state = "pending" =>
            /\ c.calls[id].state = "resolved"
            /\ c.calls[id].by = "res"
            /\ id \notin c.pendingRpc
       /\ \A j \in CallIds :
            calls[j].by = "res" => calls[j].state = "resolved"

\* C11 witness: two calls were outstanding and the later one was answered
\* first; the earlier one is still pending.
C11_Witness ==
  /\ calls[2].by = "res"
  /\ calls[1].state = "pending"
  /\ 1 \in pendingRpc

\* A step in which the socket the client holds emits `error` or `close`.
CurrentConnectionLost ==
  /\ socket # NoSocket
  /\ sockState'[socket] # sockState[socket]
  /\ sockState'[socket] \in {"errored", "closed"}

\* C12: when the socket the client holds emits `error` or `close`, every
\* call in the pending table is rejected, the table is left empty, the
\* session is not connected, the client holds no socket, and
\* opts.onDisconnected is invoked.
C12_DisconnectRejectsAll ==
  /\ [](socket # NoSocket => "onDisconnected" \in handleDisconnect(Client).notes)
  /\ [][CurrentConnectionLost =>
          /\ \A id \in pendingRpc :
               calls'[id].state = "rejected" /\ calls'[id].by = "disconnect"
          /\ \A id \in CallIds : calls'[id].state # "pending"
          /\ pendingRpc' = {}
          /\ timers' = {}
          /\ connected' = FALSE
          /\ socket' = NoSocket]_vars

\* C12 witness: two calls were pending on an established connection when its
\* socket closed, and both were rejected by the disconnect.
C12_Witness ==
  /\ calls[1].by = "disconnect"
  /\ calls[2].by = "disconnect"
  /\ calls[1].settles = 1
  /\ socket = NoSocket
  /\ \E s \in SocketIds : sockState[s] = "closed"

\* The last step handled the frame `frame`, read from the socket the client
\* held.
HeardOnCurrent(frame) ==
  /\ heard.ev = "data"
  /\ heard.held
  /\ heard.frame = frame

\* C13: pairing.  Every hello carries the stored token, and none when there
\* is none; a NOT_PAIRED error on the connection is answered by one
\* pair-request; pair-ok with the token T stores T and passes it to
\* onPairToken, which stores it in the configuration; the stored token then
\* changes only with onPairToken or onAuthReset, so every later hello carries
\* T; and a hello-ok leaves the session connected.
C13_Pairing ==
  /\ [](/\ \A i \in DOMAIN out : out[i].type = "hello" => out[i].arg = token
        /\ HeardOnCurrent(Frame("error", 0, "NOT_PAIRED")) =>
             out = <<Frame("pair-request", 0, "")>>
        /\ HeardOnCurrent(Frame("pair-ok", 0, "T")) =>
             token = "T" /\ "onPairToken" \in notes /\ configToken = "T"
        /\ HeardOnCurrent(Frame("hello-ok", 0, "")) => connected /\ socket = heard.s)
  /\ [][token' # token => notes' \cap {"onPairToken", "onAuthReset"} # {}]_vars

\* C13 witness: the first hello carried no token, pairing stored T, the hello
\* of a later connection carried T, and the hello-ok that followed it made
\* the session connected.
C13_Witness ==
  /\ hellos = <<"none", "T">>
  /\ HeardOnCurrent(Frame("hello-ok", 0, ""))
  /\ connected
  /\ configToken = "T"

\* C14: whenever a connection delivers an `error` frame whose code is
\* NOT_PAIRED or UNAUTHORIZED, the client discards its token, invokes
\* onAuthReset and writes exactly one pair-request, without a token; it keeps
\* its connection and its pending calls as they are.
C14_AuthErrorRepairs ==
  \A s \in SocketIds, code \in {"NOT_PAIRED", "UNAUTHORIZED"} :
    sockState[s] = "open" =>
      LET c == handleFrame(Client, s, Frame("error", 0, code))
      IN /\ c.token = "none"
         /\ "onAuthReset" \in c.notes
         /\ c.out = <<Frame("pair-request", 0, "")>>
         /\ c.socket = socket
         /\ c.connected = connected
         /\ c.pendingRpc = pendingRpc
         /\ c.calls = calls
         /\ c.timers = timers

\* C15: the session becomes connected, and the promise of connect() is
\* resolved, only by a hello-ok read from the socket that the current
\* connect() opened, which the client holds; and such a hello-ok resolves the
\* promise and invokes onConnected.
C15_ReadyOnlyByOwnHello ==
  /\ "onConnected" \in notes => HeardOnCurrent(Frame("hello-ok", 0, ""))
  /\ HeardOnCurrent(Frame("hello-ok", 0, "")) =>
       connected /\ helloReady = "resolved" /\ "onConnected" \in notes

\* The sockets that are connecting or open: all have the client's handlers
\* attached, since the client never detaches one.
LiveSockets == {s \in SocketIds : sockState[s] \in {"connecting", "open"}}

\* C19: under the reconnect loop of runNodeHost at most one client socket is
\* connecting or open at any time: connect() opens a socket only after the
\* previous one has closed or been destroyed.
C19_OneSocket == Cardinality(LiveSockets) <= 1

\* A connect() of the loop failed, or the client reported a disconnect.
ConnectionFailed ==
  \/ "onDisconnected" \in notes
  \/ loop = "connect" /\ helloReady = "rejected"

\* The loop has called client.connect(); or it cannot, in this model: it is
\* due to and every socket has been used.
ConnectCalledAgain ==
  \/ heard.ev = "connect()"
  \/ /\ loop = "backoff"
     /\ ~connected
     /\ \A s \in SocketIds : sockState[s] # "unopened"

C16_MalformedDiscarded == fault = FALSE

RECURSIVE CompleteLines(_)
\* The lines of the bytes w that their newline has ended, in order.
CompleteLines(w) ==
  LET idx == IndexOfNewline(w, 1) IN
  IF idx = 0 THEN <<>>
  ELSE <<SubSeq(w, 1, idx - 1)>> \o CompleteLines(SubSeq(w, idx + 1, Len(w)))

IsValue(v) == v # "SyntaxError"

\* The JSON values of the complete lines of w that hold one, in order.
ValuesOf(w) ==
  SelectSeq([i \in DOMAIN CompleteLines(w) |-> JSONparse(Trim(CompleteLines(w)[i]))],
            IsValue)

\* C17: however the bytes are cut into chunks, handleFrame has been called
\* once for each complete line delivered so far that holds a JSON value, in
\* the order of the lines' newlines.
C17_InOrderOncePerLine == dispatched = ValuesOf(SubSeq(wire, 1, pos))

\* The activations of handleInvoke that have started and not finished.
InProgress == {i \in Handlers : inv[i].pc # "idle"}

\* C18: at most one inbound invoke is being handled at any time.
C18_InvokesSerialized == Cardinality(InProgress) <= 1

\* ------------------------------------------------------------------ handleInvoke claims
\* The activations handling a system.run invoke whose params were accepted.
Runs == {i \in Handlers : inv[i].pc # "idle" /\ inv[i].kind = "run"}

\* The activations past the point where handleInvoke decides whether to ask.
Decided == {i \in Runs : inv[i].pc \in {"ask", "run", "done"}}

Returned == {i \in Runs : inv[i].pc = "done"}

SentEvent(h, name) ==
  \E k \in 1..Len(h.sent) : h.sent[k].kind = "event" /\ h.sent[k].what = name

SentDenied(h, reason) ==
  \E k \in 1..Len(h.sent) : h.sent[k] = Event("exec.denied", reason)

SentFailure(h) ==
  \E k \in 1..Len(h.sent) : h.sent[k].kind = "invoke-res" /\ h.sent[k].what = "error"

AuthorizationReasons ==
  {"security=deny", "user-denied", "approval-required", "allowlist-miss"}

\* The request passed authorization: it reached the permission check.
PassedAuthorization(h) ==
  /\ h.pc \in {"run", "done"}
  /\ \A reason \in AuthorizationReasons : ~SentDenied(h, reason)

\* Denied with `reason` and nothing spawned.
DeniedUnspawned(h, reason) ==
  /\ h.pc = "done"
  /\ SentDenied(h, reason)
  /\ SentFailure(h)
  /\ h.spawns = 0

\* C2: under security=deny every system.run invoke is denied with reason
\* security=deny, whatever ask, askFallback, autoAllowSkills and the request
\* are; the approval channel is never called and no process is spawned.
C2_SecurityDeny ==
  policy.security = "deny" =>
    \A i \in Runs :
      /\ inv[i].asks = 0
      /\ inv[i].spawns = 0
      /\ inv[i].pc \in {"skills", "done"}
      /\ inv[i].pc = "done" =>
           inv[i].sent = <<Event("exec.denied", "security=deny"),
                           InvokeRes(FALSE, "SYSTEM_RUN_DISABLED: security=deny")>>

\* C2 witness: a request was denied under security=deny although ask=always
\* and the skill cache had been consulted.
C2_Witness ==
  /\ policy.security = "deny"
  /\ policy.ask = "always"
  /\ policy.autoAllowSkills
  /\ \E i \in Returned : SentDenied(inv[i], "security=deny")

\* Whether the command matches the agent's allowlist: as handleInvoke computed
\* it under security=allowlist, and by the store under security=open, where
\* handleInvoke does not look.
MatchedAllowlist(h) ==
  IF policy.security = "allowlist" THEN h.allowlistMatch
  ELSE matchAllowlist(allowlist, h.agent, resolveCommandResolution(h.cmd))

\* C3, as claimed: for security allowlist or open, an approval request is
\* issued exactly when ask=always, or ask=on-miss and the command matched
\* neither the allowlist nor the skill cache.
C3_AskExactlyWhen_AsClaimed ==
  policy.security # "deny" =>
    \A i \in Decided :
      inv[i].asks = 1 <=>
        \/ policy.ask = "always"
        \/ /\ policy.ask = "on-miss"
           /\ ~MatchedAllowlist(inv[i])
           /\ ~inv[i].skillAllow

\* C3, amended: an approval request is issued exactly when ask=always, or
\* ask=on-miss under security=allowlist and the command matched neither the
\* allowlist nor the skill cache; under security=open, on-miss never asks.
C3_AskExactlyWhen ==
  policy.security # "deny" =>
    \A i \in Decided :
      /\ inv[i].asks \in {0, 1}
      /\ inv[i].asks = 1 <=>
           \/ policy.ask = "always"
           \/ /\ policy.ask = "on-miss"
              /\ policy.security = "allowlist"
              /\ ~inv[i].allowlistMatch
              /\ ~inv[i].skillAllow

\* C3 witness: under security=allowlist and ask=on-miss a request that matched
\* the skill cache went on without an approval request.
C3_Witness ==
  /\ policy.security = "allowlist"
  /\ policy.ask = "on-miss"
  /\ \E i \in Decided : inv[i].skillAllow /\ ~inv[i].allowlistMatch /\ inv[i].asks = 0

\* The activations whose approval request got no answer.
Unanswered == {i \in Runs : inv[i].decision = Null}

\* C4: with no answer the outcome is decided by askFallback alone: full
\* approves; allowlist approves iff the allowlist or skill match computed
\* before asking holds, else denies with approval-required; deny denies with
\* approval-required; a denied request spawns nothing.
C4_AskFallback ==
  \A i \in Unanswered :
    LET h == inv[i]
        matched == h.allowlistMatch \/ h.skillAllow
        approved == h.approvedByAsk /\ PassedAuthorization(h)
        denied == ~h.approvedByAsk /\ DeniedUnspawned(h, "approval-required")
    IN /\ h.asks = 1
       /\ policy.askFallback = "full" => approved
       /\ policy.askFallback = "allowlist" =>
            /\ matched => approved
            /\ ~matched => denied
       /\ policy.askFallback = "deny" => denied

\* C4 witness: no answer, askFallback=allowlist, and the request was approved
\* on its allowlist match.
C4_Witness ==
  /\ policy.askFallback = "allowlist"
  /\ \E i \in Unanswered : inv[i].allowlistMatch /\ inv[i].spawns = 1

\* The pattern of a request: the resolved path, else the raw executable
\* token, else argv[0].
RequestPattern(h) ==
  LET resolution == resolveCommandResolution(h.cmd)
  IN IF resolution.resolvedPath # Null THEN resolution.resolvedPath
     ELSE IF resolution.rawExecutable # Null THEN resolution.rawExecutable
     ELSE h.cmd

AllowedAlways == {i \in Runs : inv[i].decision = "allow-always"}

\* C5, as claimed: on allow-always, under security allowlist or open, the
\* request is approved and an entry for the requesting agent, keyed by the
\* resolved path or else the raw executable token, is persisted.
C5_AllowAlwaysPersists_AsClaimed ==
  \A i \in AllowedAlways :
    /\ inv[i].approvedByAsk
    /\ PassedAuthorization(inv[i])
    /\ [agent |-> inv[i].agent, pattern |-> RequestPattern(inv[i])] \in allowlist

\* C5, amended: on allow-always the request is approved; an entry for the
\* requesting agent keyed by the resolved path (else the raw executable token,
\* else argv[0]) is persisted when security=allowlist and that pattern is not
\* empty, and nothing is persisted otherwise.
C5_AllowAlwaysPersists ==
  \A i \in AllowedAlways :
    LET h == inv[i]
        pattern == RequestPattern(h)
    IN /\ h.approvedByAsk
       /\ PassedAuthorization(h)
       /\ IF policy.security = "allowlist" /\ pattern # ""
          THEN /\ h.adds = {pattern}
               /\ [agent |-> h.agent, pattern |-> pattern] \in allowlist
          ELSE h.adds = {}

\* C5 witness: allow-always persisted an entry keyed by the resolved path for
\* an agent that had none.
C5_Witness ==
  \E i \in AllowedAlways :
    /\ inv[i].agent = "ops"
    /\ inv[i].adds = {"/bin/ls"}
    /\ [agent |-> "ops", pattern |-> "/bin/ls"] \in allowlist

\* What a new system.run invoke for (agent, cmd), not flagged for screen
\* recording, would come to in the current state, for every set the skill
\* cache may return.
WouldBecome(agent, cmd) ==
  LET fresh == [h |-> IdleHandler, allowlist |-> allowlist]
      begun == Begin(fresh, "run", cmd, agent, FALSE, TRUE)
  IN IF begun.h.pc = "skills"
     THEN {AfterBins(begun, bins, FALSE) : bins \in SUBSET SkillNames}
     ELSE {begun}

\* A new invoke for (agent, cmd) is let through without an approval request.
PassesUnprompted(agent, cmd) ==
  \A w \in WouldBecome(agent, cmd) :
    /\ w.h.asks = 0
    /\ PassedAuthorization(w.h)

C6Policy ==
  /\ policy.security = "allowlist"
  /\ policy.ask = "on-miss"
  /\ policy.askFallback = "allowlist"

\* An unmatched, unanswered request is denied with approval-required.
C6_UnansweredDenied ==
  \A i \in Unanswered :
    ~inv[i].allowlistMatch /\ ~inv[i].skillAllow =>
      DeniedUnspawned(inv[i], "approval-required")

Keyed == {r \in Requests : RequestPattern([cmd |-> r.cmd]) # ""}

\* PassesUnprompted reads the policy and the store only: the steps that can
\* take it away are those that change one of them.
StoreChanges == <<policy, allowlist>>' # <<policy, allowlist>>

C6_Sticks ==
  \A r \in Keyed : PassesUnprompted(r.agent, r.cmd) => PassesUnprompted(r.agent, r.cmd)'

DenialMessages ==
  {<<"security=deny", "SYSTEM_RUN_DISABLED: security=deny">>,
   <<"user-denied", "SYSTEM_RUN_DENIED: user denied">>,
   <<"approval-required", "SYSTEM_RUN_DENIED: approval required">>,
   <<"allowlist-miss", "SYSTEM_RUN_DENIED: allowlist miss">>,
   <<"permission:screenRecording", "PERMISSION_MISSING: screenRecording">>}

\* C8: on every denial path (security=deny, user-denied, approval-required,
\* allowlist-miss, permission:screenRecording) the exec.denied event carrying
\* the reason is sent before the non-ok invoke-res, and no exec.started event
\* is sent for that invoke.
C8_DeniedEventFirst ==
  \A i \in Runs :
    LET h == inv[i]
    IN (SentFailure(h) \/ SentEvent(h, "exec.denied")) =>
         /\ h.pc = "done"
         /\ \E d \in DenialMessages :
              h.sent = <<Event("exec.denied", d[1]), InvokeRes(FALSE, d[2])>>
         /\ ~SentEvent(h, "exec.started")
         /\ h.spawns = 0

\* C8 witness: a request that was approved by the user was denied for the
\* screen-recording permission.
C8_Witness ==
  \E i \in Returned :
    /\ inv[i].decision = "allow-once"
    /\ SentDenied(inv[i], "permission:screenRecording")

\* ------------------------------------------------------------------ runCommand claims
\* C22: runCommand resolves its promise once, whatever the order of the
\* child's `error`, `exit` and the timer: the first `error` or `exit`
\* produces the result, a later one is ignored and leaves the result as it
\* is, and the timer is no longer armed once the result is produced.
C22_ResultOnce ==
  /\ [](/\ resolves <= 1
        /\ settled <=> resolves = 1
        /\ settled <=> result # None
        /\ (exited \/ errored) => settled
        /\ (exited /\ errored) => ignored = 1
        /\ settled => timer # "armed")
  /\ [][result # None => result' = result]_vars

\* C22 witness: the timer fired, then the child emitted `exit` and `error`;
\* one of the two produced the result and the other was ignored.
C22_Witness ==
  /\ timer = "fired"
  /\ exited
  /\ errored
  /\ resolves = 1
  /\ ignored = 1

\* C23: in every result, success is true exactly when exitCode is 0, timedOut
\* is false and no error was recorded.
C23_SuccessIff ==
  result # None =>
    (result[1].success <=>
       /\ result[1].exitCode = <<0>>
       /\ ~result[1].timedOut
       /\ result[1].error = Null)

\* C23 witness: the child exited with code 0 after the timer had fired, and
\* the result is not a success.
C23_Witness ==
  /\ result # None
  /\ result[1].exitCode = <<0>>
  /\ result[1].timedOut
  /\ ~result[1].success

\* C24: stdout and stderr together never hold more than the cap; when the
\* child has written more than the cap the result is truncated, holds
\* exactly the cap, and the marker is appended to stderr if stderr is not
\* empty and to stdout otherwise; when the child has written no more than the
\* cap the result is not truncated.
C24_OutputCap ==
  /\ Len(stdout) + Len(stderr) <= OUTPUT_CAP
  /\ result # None =>
       LET r == result[1]
           m == WithMarker(r)
       IN /\ produced > OUTPUT_CAP =>
               /\ r.truncated
               /\ Len(r.stdout) + Len(r.stderr) = OUTPUT_CAP
               /\ r.stderr # <<>> =>
                    m.stderr = r.stderr \o Marker /\ m.stdout = r.stdout
               /\ r.stderr = <<>> =>
                    m.stdout = r.stdout \o Marker /\ m.stderr = r.stderr
          /\ produced <= OUTPUT_CAP => ~r.truncated /\ m = r

\* C25: when the timer fires the child is sent one SIGKILL and the result
\* produced afterwards has timedOut true and success false; without a
\* positive timeoutMs no timer is armed and timedOut stays false; and the
\* timer does not fire once the result is produced.
C25_Timeout ==
  /\ [](/\ timer = "fired" => timedOut /\ kills = 1
        /\ (timer = "fired" /\ result # None) =>
             result[1].timedOut /\ ~result[1].success
        /\ (timeoutMs = None \/ timeoutMs[1] <= 0) =>
             /\ timer = "none"
             /\ ~timedOut
             /\ kills = 0
             /\ result # None => ~result[1].timedOut
        /\ (timeoutMs # None /\ timeoutMs[1] > 0) => timer # "none"
        /\ result # None => timer # "armed")
  /\ [][result # None => timer' = timer]_vars

\* C25 witness: the timer fired on a running child, which was killed, and the
\* result says timedOut.
C25_Witness ==
  /\ timer = "fired"
  /\ kills = 1
  /\ result # None
  /\ result[1].timedOut
  /\ result[1].exitCode = None

\* ------------------------------------------------------------------ sanitizeEnv claims
\* The key an override entry acts on.
KeyOf(e) == Trim(e.rawKey)

\* The override e is one the denylist names: its key, trimmed and in upper
\* case, is a blocked name or starts with LD_ or DYLD_.
Denied(e) ==
  \/ toUpperCase(KeyOf(e)) \in blockedEnvKeys
  \/ \E prefix \in blockedEnvPrefixes : startsWith(toUpperCase(KeyOf(e)), prefix)

\* The key of the override e has its inherited value, or is absent.
AsInherited(e) ==
  IF KeyOf(e) \in DOMAIN ProcessEnv
  THEN KeyOf(e) \in DOMAIN childEnv /\ childEnv[KeyOf(e)] = ProcessEnv[KeyOf(e)]
  ELSE KeyOf(e) \notin DOMAIN childEnv

\* The key of the override e maps to the value of e.
TookEffect(e) == KeyOf(e) \in DOMAIN childEnv /\ childEnv[KeyOf(e)] = e.value

\* C26, as stated: no denied override has taken effect, and every other
\* override with a non-empty key maps to exactly its value.
C26_AsStated ==
  sanitized =>
    \A i \in DOMAIN overrides :
      /\ Denied(overrides[i]) => AsInherited(overrides[i])
      /\ (~Denied(overrides[i]) /\ KeyOf(overrides[i]) # <<>>) =>
           TookEffect(overrides[i])

\* C26, amended: no denied override has taken effect, and every other
\* override with a non-empty key maps to exactly its value unless a later
\* entry of the map has the same key once trimmed, which then decides.
C26_Sanitized ==
  sanitized =>
    \A i \in DOMAIN overrides :
      /\ Denied(overrides[i]) => AsInherited(overrides[i])
      /\ (/\ ~Denied(overrides[i])
          /\ KeyOf(overrides[i]) # <<>>
          /\ \A j \in DOMAIN overrides : j > i => KeyOf(overrides[j]) # KeyOf(overrides[i]))
           => TookEffect(overrides[i])

\* C26 witness: a map with ` Path ` and FOO went through sanitizeEnv; PATH
\* kept its inherited value, Path is absent and FOO has its override value.
C26_Witness ==
  /\ sanitized
  /\ Len(overrides) = 2
  /\ overrides[1].rawKey = <<" ", "P", "a", "t", "h", " ">>
  /\ overrides[2].rawKey = <<"F", "O", "O">>
  /\ childEnv[<<"F", "O", "O">>] = overrides[2].value
  /\ childEnv[<<"P", "A", "T", "H">>] = "/usr/bin"

\* ------------------------------------------------------------------ SkillBinsCache claims
\* C27, as stated: after a failed refresh the cached set is the set of the
\* last successful refresh, and it is empty only if no refresh ever
\* succeeded.
C27_AsStated ==
  lastCurrent = "failed" =>
    /\ lastGood # None => skillBins = lastGood[1]
    /\ skillBins = {} => lastGood = None

\* C27, amended: after a failed refresh the cached set, which current()
\* returns, is the set of the last successful refresh, and is empty if none
\* has succeeded: a failure never changes the set of a refresh that
\* succeeded, which can itself be empty.
C27_FailureKeepsSet ==
  /\ lastCurrent = "failed" =>
       /\ lastGood # None => skillBins = lastGood[1]
       /\ lastGood = None => skillBins = {}
       /\ returned = skillBins
  /\ skillFresh <=> lastGood # None

\* C27 witness: a refresh succeeded with a non-empty set, a later one
\* failed, and current() still returned that set.
C27_Witness ==
  /\ lastCurrent = "failed"
  /\ lastGood = <<{"ls", "git"}>>
  /\ returned = {"ls", "git"}

\* ------------------------------------------------------------------ run and report claims
\* The position of the first frame of a handler that is the event `name`,
\* 0 when there is none.
FirstEvent(h, name) ==
  LET at == {k \in 1..Len(h.sent) : h.sent[k].kind = "event" /\ h.sent[k].what = name}
  IN IF at = {} THEN 0 ELSE CHOOSE k \in at : \A j \in at : k <= j

IsOkResponse(frame) == frame.kind = "invoke-res" /\ frame.what = "ok"

\* C29: for every system.run invoke, exec.started is sent before the process
\* is spawned; exec.finished is sent only after the process result is
\* produced, and after an exec.started; the ok invoke-res comes right after
\* exec.finished; each is sent at most once.
C29_StartedFinishedResponse ==
  \A i \in Runs :
    LET h == inv[i]
        started == FirstEvent(h, "exec.started")
        finished == FirstEvent(h, "exec.finished")
    IN /\ h.spawns > 0 => started > 0
       /\ h.pc = "run" => h.spawns = 1 /\ started = Len(h.sent) /\ finished = 0
       /\ finished > 0 =>
            /\ h.pc = "done" /\ h.spawns = 1
            /\ 0 < started /\ started < finished
            /\ Len(h.sent) = finished + 1
            /\ IsOkResponse(h.sent[finished + 1])
       /\ \A k \in 1..Len(h.sent) :
            /\ IsOkResponse(h.sent[k]) => finished > 0 /\ k = finished + 1
            /\ h.sent[k].kind = "event" /\ h.sent[k].what = "exec.started" => k = started
            /\ h.sent[k].kind = "event" /\ h.sent[k].what = "exec.finished" => k = finished

\* C29 witness: a request approved by the user ran, and exec.started,
\* exec.finished and the ok invoke-res were sent in that order.
C29_Witness ==
  \E i \in Returned :
    /\ inv[i].decision = "allow-once"
    /\ inv[i].spawns = 1
    /\ inv[i].sent = <<Event("exec.started", "")>> \o FinishFrames(FALSE)

\* The system.run activations flagged as needing screen recording.
Flagged == {i \in Runs : inv[i].needsScreenRecording}

\* C30: a flagged request that passed authorization is denied with
\* permission:screenRecording and never spawned; a flagged request that
\* failed authorization is denied with the authorization reason alone.
C30_PermissionAfterAuthorization ==
  \A i \in Flagged :
    LET h == inv[i]
    IN /\ h.spawns = 0
       /\ ~SentEvent(h, "exec.started")
       /\ h.pc # "run"
       /\ h.pc = "done" /\ ~h.fault /\ Len(h.sent) > 1 =>
            /\ Len(h.sent) = 2
            /\ \/ /\ \A reason \in AuthorizationReasons : ~SentDenied(h, reason)
                  /\ h.sent = DenialFrames("permission:screenRecording",
                                           "PERMISSION_MISSING: screenRecording")
               \/ /\ \E reason \in AuthorizationReasons : h.sent[1] = Event("exec.denied", reason)
                  /\ ~SentDenied(h, "permission:screenRecording")
       /\ SentDenied(h, "permission:screenRecording") =>
            ~AllowlistMiss(policy.security, h.allowlistMatch, h.skillAllow, h.approvedByAsk)
            /\ ~SecurityDenies(policy.security)
            /\ (h.asks = 1 => h.approvedByAsk)

\* C30 witness: a flagged request the user approved was denied for the
\* permission, with nothing spawned.
C30_Witness ==
  \E i \in Flagged :
    /\ inv[i].decision = "allow-once"
    /\ inv[i].asks = 1
    /\ inv[i].spawns = 0
    /\ SentDenied(inv[i], "permission:screenRecording")

\* ------------------------------------------------------------------ TLS pinning claims
\* The sockets whose certificate failed the pin test.
Aborted == {s \in SocketIds : tlsState[s] = "aborted"}

\* C21: when the certificate of a connection fails the pin test, the
\* connect() call that opened the connection rejects, the socket is
\* destroyed, and no frame is ever read from that connection, so the session
\* does not become Ready on it.
C21_MismatchAborts ==
  /\ \A s \in Aborted :
       /\ sockState[s] \in {"destroyed", "closed"}
       /\ attempt[s] = "rejected"
       /\ socket # s
  /\ heard.ev = "data" => tlsState[heard.s] = "secured"

\* ------------------------------------------------------------------ connection loss claims
\* The step in which the client lets go of its socket.
ConnectionLost == socket # NoSocket /\ socket' = NoSocket

\* The frames runCommand's completion makes handleInvoke send.
IsFinishReport(o) ==
  /\ Len(o) = 2
  /\ o[1] = Frame("event", 0, "exec.finished")
  /\ o[2] = Frame("invoke-res", 0, "ok")

\* C28: losing the connection leaves every running activation as it is; when
\* its command completes, exec.finished and the ok invoke-res are written, in
\* that order, to the socket the client holds then, which is connecting or
\* open, and nothing is written and no fault raised when it holds none.
C28_ReportAfterLoss ==
  /\ [](heard.ev = "finished" =>
          /\ \E i \in Handlers : inv[i].pc = "done" /\ ~inv[i].fault
          /\ heard.s = socket
          /\ heard.s = NoSocket => out = <<>>
          /\ heard.s # NoSocket =>
               IsFinishReport(out) /\ sockState[heard.s] \in {"connecting", "open"})
  /\ [][ConnectionLost =>
          \A i \in Handlers : inv[i].pc = "run" => inv'[i] = inv[i]]_vars

\* C28 witness: the connection was lost while a command ran, the loop
\* connected again, and the report was written to the new socket.
C28_Witness ==
  /\ heard.ev = "finished"
  /\ heard.s = 2
  /\ IsFinishReport(out)
  /\ \E i \in Handlers : lost[i] /\ inv[i].pc = "done"

\* ------------------------------------------------------------------ allowlist store claims
\* The activation is past the authorization steps and none of them denied it.
Approved(h) ==
  /\ h.pc \in {"run", "done"}
  /\ \A reason \in AuthorizationReasons : ~SentDenied(h, reason)

\* C33: recordAllowlistUse is called once for a system.run invoke that passed
\* authorization with the allowlist match handleInvoke computed, whether or
\* not the approval flow ran, and never for one without that match, one still
\* undecided or one the authorization steps denied.
C33_UseRecorded ==
  \A i \in Runs :
    LET h == inv[i]
    IN /\ h.uses \in {0, 1}
       /\ h.uses = 1 <=> h.allowlistMatch /\ Approved(h)

\* C33 witness: usage was recorded for a matched request that the approval
\* flow also approved.
C33_Witness ==
  \E i \in Runs :
    /\ inv[i].uses = 1
    /\ inv[i].allowlistMatch
    /\ inv[i].asks = 1
    /\ inv[i].decision = "allow-once"
    /\ inv[i].spawns = 1

\* The system.run activations that ended with a non-ok invoke-res.
Refused == {i \in Runs : inv[i].pc = "done" /\ SentFailure(inv[i])}

\* C40, as stated: an invoke that ends with a non-ok invoke-res, whatever
\* the denial reason, has called neither addAllowlistEntry nor
\* recordAllowlistUse.
C40_AsStated ==
  \A i \in Refused : inv[i].adds = {} /\ inv[i].uses = 0

\* C40, amended: an invoke denied by an authorization step (security=deny,
\* user-denied, approval-required, allowlist-miss) has called neither
\* addAllowlistEntry nor recordAllowlistUse; a permission denial comes after
\* both and leaves what they did: it adds an entry only after allow-always
\* and records a use only on an allowlist match.
C40_DenialLeavesStore ==
  \A i \in Refused :
    LET h == inv[i]
    IN IF SentDenied(h, "permission:screenRecording")
       THEN /\ h.adds # {} => h.decision = "allow-always"
            /\ h.uses = 1 <=> h.allowlistMatch
       ELSE /\ \E reason \in AuthorizationReasons : SentDenied(h, reason)
            /\ h.adds = {}
            /\ h.uses = 0

\* C40 witness: the user denied a request that matched the allowlist, and
\* nothing was added or recorded.
C40_Witness ==
  \E i \in Refused :
    /\ inv[i].allowlistMatch
    /\ inv[i].decision = "deny"
    /\ SentDenied(inv[i], "user-denied")
    /\ inv[i].adds = {}
    /\ inv[i].uses = 0

\* C38: every invoke is answered by one invoke-res, and handleInvoke never
\* ends with a fault.
C38_AnsweredOnce ==
  \A i \in Handlers :
    inv[i].pc = "done" =>
      /\ ~inv[i].fault
      /\ Cardinality({k \in 1..Len(inv[i].sent) : inv[i].sent[k].kind = "invoke-res"}) = 1

\* ------------------------------------------------------------------ superseded socket claims
\* C35: whenever the session is Ready the client holds a socket, and that
\* socket is open.
C35_ReadyHoldsSocket ==
  connected => socket # NoSocket /\ sockState[socket] = "open"

\* The step handles a `data`, `error` or `close` event of a socket other
\* than the one the client holds.
SupersededEvent ==
  /\ socket # NoSocket
  /\ heard'.ev \in {"data", "error", "close"}
  /\ heard'.s \notin {NoSocket, socket}

\* C36: an event of a socket the client has dropped, handled while the
\* client holds a newer socket, neither marks the session Ready, nor settles
\* the promise of the new connect(), nor clears the reference to the new
\* socket, nor touches the calls pending on it.
C36_SupersededIgnored ==
  [][SupersededEvent =>
       /\ connected' = connected
       /\ helloReady' = helloReady
       /\ socket' = socket
       /\ pendingRpc' = pendingRpc]_vars

\* C34: the `close` that follows the `error` of a socket is a later call of
\* handleDisconnect for the same connection: it rejects nothing and does not
\* call onDisconnected.
C34_NotifiedOnce ==
  [][\A s \in SocketIds :
       sockState[s] = "errored" /\ sockState'[s] = "closed" =>
         /\ "onDisconnected" \notin notes'
         /\ helloReady' = helloReady]_vars

\* C39: with a pin configured, a step of the client writes frames only to a
\* socket whose pin check has passed.
C39_NoFrameBeforePin ==
  tlsFingerprint # None /\ out # <<>> =>
    /\ heard.held
    /\ tlsState[heard.s] = "secured"

\* ------------------------------------------------------------------ framing claims
\* C31: once every byte send() wrote has arrived, in whatever chunks, the
\* frames handed to handleFrame are the frames that were sent, in order.
C31_RoundTrip ==
  pos = Len(wire) =>
    \E fs \in FrameSeqs(MaxLines) : wire = Written(fs) /\ dispatched = fs

\* C37: a connection starts receiving with an empty buffer.
C37_BufferEmptyAtStart == pos = 0 => buffer = <<>>

\* ------------------------------------------------------------------ plugin validation claims
\* The issues of a result, as a set.
IssueSet(r) == {r.issues[i] : i \in 1..Len(r.issues)}

\* The elements of a list of ids.
Ids(l) == {l[i] : i \in 1..Len(l)}

\* The `plugin not found` issues for the ids of entries, allow, deny and the
\* memory slot that have no manifest; blank tells whether a blank id counts.
Unknown(c, blank) ==
  LET counts(id) == id \notin c.knownIds /\ (blank \/ id \notin {"", " "})
  IN {NotFound(<<"plugins.entries", id>>, id) : id \in Ids(c.entries) \ c.knownIds}
     \cup {NotFound(<<"plugins.allow">>, id) : id \in {x \in Ids(c.allow) : counts(x)}}
     \cup {NotFound(<<"plugins.deny">>, id) : id \in {x \in Ids(c.deny) : counts(x)}}
     \cup {NotFound(<<"plugins.slots.memory">>, id) :
             id \in {x \in Ids(c.memorySlot) : counts(x)}}

====
